---- MODULE Spec2Model ----
(***************************************************************************)
(* A model of the forklift Harness (packages/forklift/src/harness.ts):     *)
(* one harness instance, its temporary working directory with the CLI      *)
(* profile configuration file, the three factory forms, profile            *)
(* initialisation, session initialisation, funding, address lookup and     *)
(* teardown, behind the Proxy that poisons a cleaned-up instance.          *)
(*                                                                         *)
(* JavaScript strings are TLA+ strings (TLC evaluates Len, SubSeq, Head,   *)
(* Tail and \o on them).  `undefined` and `null` are the sentinels UNDEF   *)
(* and NULL.  What the operating system, the aptos CLI and the network     *)
(* answer is chosen nondeterministically by the actions.                   *)
(***************************************************************************)
EXTENDS Integers, Sequences, FiniteSets, TLC

VARIABLES
    life,        \* "none": no factory called yet; "failed": the constructor threw; "active": a harness was returned
    workingDir,  \* this.workingDir ("" before mkdtempSync)
    poisoned,    \* this.poisoned
    isLiveMode,  \* this.isLiveMode
    network,     \* this.network
    restUrl,     \* this.restUrl
    faucetUrl,   \* this.faucetUrl (NULL when there is none)
    dirExists,   \* the working directory exists on disk
    config,      \* <workingDir>/.aptos/config.yaml: [present, profiles]
    session,     \* the simulation session directory <workingDir>/data exists
    cleanups,    \* how many times cleanup() has been called
    last,        \* the latest call: [op, threw, error, ret, eff]
    ledger,      \* the simulation session's APT balances, by profile name (decimal text)
    funded,      \* by profile name, the exact sum of the amounts of the fundAccount calls that succeeded
    fleet,       \* several instances over one temporary directory: [tmp, of, ran]
    cmd,         \* the latest runCommand call on raw output: [result, out]
    sdir         \* the session directory as the engine fills it: [ops, kinds]

vars == <<life, workingDir, poisoned, isLiveMode, network, restUrl, faucetUrl,
          dirExists, config, session, cleanups, last, ledger, funded, fleet, cmd, sdir>>

\* What the session holds is followed only where funding is studied (FundSpec),
\* several instances only where their isolation is studied (FleetSpec), raw
\* process output only where its parsing is studied (CmdSpec), the entries of
\* the session directory only where the event log is located (SessSpec).
aside == <<ledger, funded, fleet, cmd, sdir>>

harnessFields == <<workingDir, isLiveMode, network, restUrl, faucetUrl>>

----------------------------------------------------------------------------
(* Bounds of the model. *)

\* cleanup() is called at most MaxCleanups times on the instance.
MaxCleanups == 2

----------------------------------------------------------------------------
(* JavaScript values. *)

UNDEF == "<undefined>"
NULL == "<null>"

\* Truthiness of a string-or-undefined-or-null value: `if (x)`, `x && ..`, `!x`.
Truthy(x) == x # UNDEF /\ x # NULL /\ x # ""

\* String.prototype.startsWith
StartsWith(s, p) == Len(s) >= Len(p) /\ SubSeq(s, 1, Len(p)) = p

\* path.join(a, b) for the relative segments the harness uses
join(a, b) == a \o "/" \o b

\* String.prototype.toLowerCase, on the ASCII letters.
LowerChar(c) ==
    CASE c = "A" -> "a"
      [] c = "B" -> "b"
      [] c = "C" -> "c"
      [] c = "D" -> "d"
      [] c = "E" -> "e"
      [] c = "F" -> "f"
      [] c = "G" -> "g"
      [] c = "H" -> "h"
      [] c = "I" -> "i"
      [] c = "J" -> "j"
      [] c = "K" -> "k"
      [] c = "L" -> "l"
      [] c = "M" -> "m"
      [] c = "N" -> "n"
      [] c = "O" -> "o"
      [] c = "P" -> "p"
      [] c = "Q" -> "q"
      [] c = "R" -> "r"
      [] c = "S" -> "s"
      [] c = "T" -> "t"
      [] c = "U" -> "u"
      [] c = "V" -> "v"
      [] c = "W" -> "w"
      [] c = "X" -> "x"
      [] c = "Y" -> "y"
      [] c = "Z" -> "z"
      [] OTHER -> c

RECURSIVE toLowerCase(_)
toLowerCase(s) == IF s = "" THEN "" ELSE LowerChar(Head(s)) \o toLowerCase(Tail(s))

APTOS_BINARY == "aptos"

\* What a call did to the outside world, in order.
Fs(op, path) == [kind |-> "fs", args |-> <<op, path>>]
SpawnOf(args) == [kind |-> "spawn", args |-> <<APTOS_BINARY>> \o args]
FetchOf(url) == [kind |-> "fetch", args |-> <<url>>]
WarnOf(msg) == [kind |-> "warn", args |-> <<msg>>]

\* The outcome of running a piece of a handler: whether it threw, with what
\* message, what it returned, and what it did to the outside world.
Ok(ret, eff) == [threw |-> FALSE, error |-> "", ret |-> ret, eff |-> eff]
Throw(msg, eff) == [threw |-> TRUE, error |-> msg, ret |-> UNDEF, eff |-> eff]

----------------------------------------------------------------------------
(* JavaScript objects: a property read finds own properties and, on a      *)
(* plain object, the ones inherited from Object.prototype.                *)

ObjectPrototypeKeys == {"constructor", "toString", "valueOf", "hasOwnProperty", "__proto__"}

\* `obj[key]` is truthy, for a plain object whose own values are objects or
\* non-empty strings.
HasTruthyProp(obj, key) == key \in DOMAIN obj \/ key \in ObjectPrototypeKeys

\* `obj.field` of a parsed JSON object: UNDEF when the field is absent.
Get(obj, field) == IF field \in DOMAIN obj THEN obj[field] ELSE UNDEF

----------------------------------------------------------------------------
(* The external process: runCommand.                                       *)

\* What spawnSync reports: the process could not be started; or it exited
\* with a status; and, when it exited zero, whether the tail of stdout parsed
\* as JSON and to what.
ProcError == [error |-> TRUE, status |-> 0, parsed |-> FALSE, json |-> <<>>]
ProcExit(code) == [error |-> FALSE, status |-> code, parsed |-> FALSE, json |-> <<>>]
ProcGarbage == [error |-> FALSE, status |-> 0, parsed |-> FALSE, json |-> <<>>]
ProcJson(j) == [error |-> FALSE, status |-> 0, parsed |-> TRUE, json |-> j]

\* An exit failure keeps the payload the process printed before failing.
ProcExitWithJson(code, j) == [error |-> FALSE, status |-> code, parsed |-> TRUE, json |-> j]

ProcFailures == {ProcError, ProcExit(1), ProcGarbage}

\* What happened to a command: it failed when it could not be started,
\* exited with another code than zero or printed no parseable payload.
Failed(proc) == proc.error \/ proc.status # 0 \/ ~proc.parsed

runCommand(args, proc) ==
    IF proc.error
    THEN Throw("Failed to start process", <<SpawnOf(args)>>)
    ELSE IF proc.status # 0
    THEN Throw("Process exited with code", <<SpawnOf(args)>>)
    ELSE IF ~proc.parsed
    THEN Throw("Failed to parse process output as JSON", <<SpawnOf(args)>>)
    ELSE Ok(proc.json, <<SpawnOf(args)>>)

\* A runAptos that runs a failed command a second time.
runAptos_retriesOnce(args, proc) ==
    LET r == runCommand(args, proc)
    IN  IF r.threw THEN [r EXCEPT !.eff = r.eff \o r.eff] ELSE r

\* Harness.runAptos: the aptos binary, run in the working directory.
runAptos(args, proc) == runCommand(args, proc)

----------------------------------------------------------------------------
(* Paths inside the working directory.                                     *)

TmpWorkingDir == "/tmp/forklift-AbC123"

getWorkingDir(wd) == wd
getSessionPath(wd) == join(wd, "data")
aptosDir(wd) == join(wd, ".aptos")
configPath(wd) == join(aptosDir(wd), "config.yaml")

NoConfig == [present |-> FALSE, profiles |-> <<>>]

----------------------------------------------------------------------------
(* Keys.  The ts-sdk derives the public key and the account address from   *)
(* the private key; each is a fixed function of the key.                   *)

\* The well-formed private keys a caller may supply.
PrivateKeys == {"0x11", "0x22"}

\* The keys Ed25519PrivateKey.generate() may return.
FreshKeys == {"0x11"}

\* What a caller may pass as privateKey.
PrivateKeyInputs == {UNDEF, ""} \cup PrivateKeys \cup {"invalid_key"}

KeyHex(k) == SubSeq(k, 3, Len(k))
toAIP80String(k) == "ed25519-priv-" \o k
publicKeyOf(k) == "0xpub" \o KeyHex(k)
accountAddressOf(k) == "0x" \o "acc" \o KeyHex(k)

ProfileNames == {"default", "alice", "constructor"}

\* `if (config.profiles[profile_name])`: the duplicate-name check.
\* A duplicate check that never finds the name.
profileExists_never(profiles, profile_name) == FALSE

\* `if (config.profiles[profile_name])`
profileExists(profiles, profile_name) == HasTruthyProp(profiles, profile_name)

DuplicateProfileError(profile_name, path) ==
    "Profile " \o profile_name \o " already exists in " \o path

\* init_cli_profile(profile_name, privateKey) in a harness with working
\* directory wd, labels net/rest and configuration file cfg; gen is the key
\* Ed25519PrivateKey.generate() would return.  Yields the outcome and the
\* configuration file afterwards.
init_cli_profile(wd, net, rest, cfg, profile_name, privateKey, gen) ==
    IF Truthy(privateKey) /\ privateKey \notin PrivateKeys
    THEN [out |-> Throw("Invalid private key", <<>>), cfg |-> cfg]
    ELSE
    LET privKey == IF Truthy(privateKey) THEN privateKey ELSE gen
        profile == [network |-> net,
                    rest_url |-> rest,
                    account |-> accountAddressOf(privKey),
                    private_key |-> toAIP80String(privKey),
                    public_key |-> "ed25519-pub-" \o publicKeyOf(privKey)]
        e1 == <<Fs("existsSync", aptosDir(wd))>>
              \o (IF cfg.present THEN <<>> ELSE <<Fs("mkdirSync", aptosDir(wd))>>)
              \o <<Fs("existsSync", configPath(wd))>>
              \o (IF cfg.present THEN <<Fs("readFileSync", configPath(wd))>> ELSE <<>>)
        loaded == IF cfg.present THEN cfg.profiles ELSE <<>>
    IN  IF profileExists(loaded, profile_name)
        THEN [out |-> Throw(DuplicateProfileError(profile_name, configPath(wd)), e1),
              cfg |-> cfg]
        ELSE [out |-> Ok(UNDEF, e1 \o <<Fs("writeFileSync", configPath(wd))>>),
              cfg |-> [present |-> TRUE,
                       profiles |-> [n \in (DOMAIN loaded) \cup {profile_name} |->
                                        IF n = profile_name THEN profile ELSE loaded[n]]]]

----------------------------------------------------------------------------
(* Session initialisation.                                                 *)

\* options.networkVersion: number | string | bigint | undefined, kept with
\* its JavaScript type and its toString() rendering.
NoVersion == [t |-> "undefined", v |-> ""]
NetworkVersions ==
    {NoVersion,
     [t |-> "number", v |-> "0"], [t |-> "number", v |-> "123"],
     [t |-> "bigint", v |-> "0"], [t |-> "bigint", v |-> "123"],
     [t |-> "string", v |-> ""], [t |-> "string", v |-> "0"], [t |-> "string", v |-> "123"]}

\* `if (options.networkVersion)`: 0, 0n, "" and undefined are falsy.
TruthyVersion(x) ==
    CASE x.t = "undefined" -> FALSE
      [] x.t = "number" -> x.v # "0"
      [] x.t = "bigint" -> x.v # "0"
      [] x.t = "string" -> x.v # ""

\* What `aptos move sim init` / `aptos move sim fund` may answer.
ResultProcs == ProcFailures \cup {ProcJson([Result |-> "Success"]),
                                  ProcJson([Result |-> "Failure"]),
                                  ProcJson([Error |-> "Simulation error"])}

\* The tail of init_session: run the command and require Result = Success.
init_session_run(args, proc) ==
    LET r == runAptos(args, proc)
    IN  IF r.threw THEN r
        ELSE IF Get(r.ret, "Result") # "Success"
        THEN Throw("aptos init failed: expected Result = Success", r.eff)
        ELSE Ok(UNDEF, r.eff)

BothOrNeitherError == "Both network and apiKey must be provided together, or neither"
VersionWithoutNetworkError == "networkVersion cannot be set when network is not set"

\* A validation without the network/apiKey pairing check.
sessionOptionsError_noPairCheck(options) ==
    IF Truthy(options.network) /\ Truthy(options.apiKey) THEN ""
    ELSE IF TruthyVersion(options.networkVersion) THEN VersionWithoutNetworkError
    ELSE ""

\* The validation of init_session: the error it raises, "" when it raises
\* none.
sessionOptionsError(options) ==
    IF Truthy(options.network) /\ Truthy(options.apiKey) THEN ""
    ELSE IF Truthy(options.network) \/ Truthy(options.apiKey) THEN BothOrNeitherError
    ELSE IF TruthyVersion(options.networkVersion) THEN VersionWithoutNetworkError
    ELSE ""

init_session(wd, options, proc) ==
    LET args == <<"move", "sim", "init", "--path", getSessionPath(wd)>>
                \o (IF Truthy(options.network) /\ Truthy(options.apiKey)
                    THEN <<"--network", options.network, "--api-key", options.apiKey>>
                         \o (IF TruthyVersion(options.networkVersion)
                             THEN <<"--network-version", options.networkVersion.v>>
                             ELSE <<>>)
                    ELSE <<>>)
    IN  IF sessionOptionsError(options) # ""
        THEN Throw(sessionOptionsError(options), <<>>)
        ELSE init_session_run(args, proc)

----------------------------------------------------------------------------
(* Address lookup and funding.                                             *)

\* What `aptos config show-profiles`, run in the working directory, may
\* answer for the configuration file cfg: the stored profiles, the account
\* printed with or without the 0x prefix.
Strip0x(a) == IF StartsWith(a, "0x") THEN SubSeq(a, 3, Len(a)) ELSE a

ShowProfilesJson(cfg, strip) ==
    [Result |-> [n \in DOMAIN cfg.profiles |->
                    [account |-> IF strip THEN Strip0x(cfg.profiles[n].account)
                                 ELSE cfg.profiles[n].account]]]

ShowProfilesProcs(cfg) ==
    ProcFailures \cup {ProcJson(ShowProfilesJson(cfg, strip)) : strip \in BOOLEAN}
                 \cup {ProcJson([Error |-> "Unable to find config"])}

\* A normalisation that prefixes whatever it is given.
normalizeAddress_alwaysPrefixes(addr) == "0x" \o addr

\* Address normalisation: the 0x prefix is added when missing.
normalizeAddress(addr) == IF ~StartsWith(addr, "0x") THEN "0x" \o addr ELSE addr

getAccountAddress(profile, proc) ==
    LET r == runAptos(<<"config", "show-profiles">>, proc)
    IN  IF r.threw THEN r
        ELSE IF "Result" \notin DOMAIN r.ret \/ ~HasTruthyProp(r.ret.Result, profile)
        THEN Throw("Profile not found", r.eff)
        ELSE IF profile \notin DOMAIN r.ret.Result
        THEN \* an inherited property has no account: addr.startsWith throws
             Throw("TypeError: Cannot read properties of undefined", r.eff)
        ELSE Ok(normalizeAddress(r.ret.Result[profile].account), r.eff)

\* What `aptos account fund-with-faucet` may answer.
FaucetProcs == ProcFailures \cup {ProcJson([Result |-> "Added 100 Octas to account"]),
                                  ProcJson([Result |-> "Rejected"]),
                                  ProcJson([Error |-> "API error"])}

\* The amounts a caller passes, as amount.toString() renders them.
Amounts == {"0", "100"}

\* The constructor funds "default" with 10000000000 octas (100 APT).
DefaultFunding == "10000000000"

\* A refusal that gives the same reason for every network.
noFaucetError_oneReason(net) ==
    "fundAccount is not supported on " \o net \o ": no faucet URL configured"

\* The live-mode refusal when there is no faucet endpoint.
noFaucetError(net) ==
    IF net = "Mainnet"
    THEN "fundAccount is not supported on Mainnet: no faucet exists"
    ELSE IF net = "Testnet"
    THEN "fundAccount is not supported on Testnet: faucet requires web UI with Google authentication (https://aptos.dev/network/faucet)"
    ELSE "fundAccount is not supported on " \o net \o ": no faucet URL configured"

\* A resolution that takes an account written as a 0x address as it is.
fundAccountAddress_rawAddress(account, proc) ==
    IF StartsWith(account, "0x") THEN Ok(account, <<>>)
    ELSE getAccountAddress(account, proc)

\* How fundAccount turns its account argument into the faucet's --account.
fundAccountAddress(account, proc) == getAccountAddress(account, proc)

\* fundAccount(account, amount); proc1 answers the address lookup (live mode
\* only), proc2 the funding command.
fundAccount(wd, live, net, faucet, account, amount, proc1, proc2) ==
    IF live
    THEN IF ~Truthy(faucet)
         THEN Throw(noFaucetError(net), <<>>)
         ELSE LET a == fundAccountAddress(account, proc1)
              IN  IF a.threw THEN a
                  ELSE LET r == runAptos(<<"account", "fund-with-faucet",
                                           "--account", a.ret,
                                           "--faucet-url", faucet,
                                           "--amount", amount>>, proc2)
                           eff == a.eff \o r.eff
                       IN  IF r.threw THEN Throw(r.error, eff)
                           ELSE IF ~Truthy(Get(r.ret, "Result"))
                                   \/ ~StartsWith(r.ret.Result, "Added")
                           THEN Throw("aptos fund-with-faucet failed", eff)
                           ELSE Ok(UNDEF, eff)
    ELSE LET r == runAptos(<<"move", "sim", "fund",
                             "--session", getSessionPath(wd),
                             "--account", account,
                             "--amount", amount>>, proc2)
         IN  IF r.threw THEN r
             ELSE IF Get(r.ret, "Result") # "Success"
             THEN Throw("aptos move sim fund failed: expected Result = Success", r.eff)
             ELSE Ok(UNDEF, r.eff)

----------------------------------------------------------------------------
(* Construction.                                                           *)

\* A matching of the label that tells letter cases apart.
liveNetwork_caseSensitive(options) ==
    LET net == options.network
    IN  IF net = "mainnet"
        THEN [network |-> "Mainnet", restUrl |-> "https://fullnode.mainnet.aptoslabs.com",
              faucetUrl |-> NULL]
        ELSE IF net = "testnet"
        THEN [network |-> "Testnet", restUrl |-> "https://fullnode.testnet.aptoslabs.com",
              faucetUrl |-> NULL]
        ELSE IF net = "devnet"
        THEN [network |-> "Devnet", restUrl |-> "https://fullnode.devnet.aptoslabs.com",
              faucetUrl |-> "https://faucet.devnet.aptoslabs.com"]
        ELSE IF net = "local"
        THEN [network |-> "Local", restUrl |-> "http://127.0.0.1:8080",
              faucetUrl |-> "http://127.0.0.1:8081"]
        ELSE [network |-> "Custom", restUrl |-> options.network,
              faucetUrl |-> IF options.faucetUrl = UNDEF THEN NULL ELSE options.faucetUrl]

\* The network and endpoints recorded on the instance.
liveNetwork(options) ==
    LET net == toLowerCase(options.network)
    IN  IF net = "mainnet"
        THEN [network |-> "Mainnet", restUrl |-> "https://fullnode.mainnet.aptoslabs.com",
              faucetUrl |-> NULL]
        ELSE IF net = "testnet"
        THEN [network |-> "Testnet", restUrl |-> "https://fullnode.testnet.aptoslabs.com",
              faucetUrl |-> NULL]
        ELSE IF net = "devnet"
        THEN [network |-> "Devnet", restUrl |-> "https://fullnode.devnet.aptoslabs.com",
              faucetUrl |-> "https://faucet.devnet.aptoslabs.com"]
        ELSE IF net = "local"
        THEN [network |-> "Local", restUrl |-> "http://127.0.0.1:8080",
              faucetUrl |-> "http://127.0.0.1:8081"]
        ELSE [network |-> "Custom", restUrl |-> options.network,
              faucetUrl |-> IF options.faucetUrl = UNDEF THEN NULL ELSE options.faucetUrl]

simNetwork == [network |-> "Custom", restUrl |-> "https://dummy.network.aptoslabs.com",
               faucetUrl |-> NULL]

\* A constructor that initialises the session and funds nothing.
constructorSimulation_noFunding(wd, f, options, procInit, procFund) ==
    LET s == init_session(wd, options, procInit)
    IN  [out |-> s,
         session |-> ~procInit.error /\ procInit.status = 0 /\ s.eff # <<>>]

\* The part of the constructor that follows the default profile in
\* simulation mode: session initialisation, then the funding of "default".
\* Yields the outcome and whether the session directory now exists.
constructorSimulation(wd, f, options, procInit, procFund) ==
    LET s == init_session(wd, options, procInit)
        made == ~procInit.error /\ procInit.status = 0 /\ s.eff # <<>>
    IN  IF s.threw THEN [out |-> s, session |-> made]
        ELSE LET m == fundAccount(wd, FALSE, f.network, f.faucetUrl,
                                  "default", DefaultFunding, procFund, procFund)
             IN  [out |-> [m EXCEPT !.eff = s.eff \o m.eff], session |-> made]

\* new Harness(options): gen is the key generated for "default", procInit
\* and procFund what the two commands of a simulation-mode creation answer.
\* Yields the outcome, the fields of the instance and the state of the disk.
constructor(options, gen, procInit, procFund) ==
    LET wd == TmpWorkingDir
        e0 == <<Fs("mkdtempSync", wd)>>
        live == options.mode = "live"
        blank == [out |-> Throw("AssertionError: network is required in live mode", e0),
                  workingDir |-> wd, isLiveMode |-> live, network |-> UNDEF,
                  restUrl |-> UNDEF, faucetUrl |-> UNDEF,
                  config |-> NoConfig, session |-> FALSE]
    IN  IF live /\ ~Truthy(options.network) THEN blank
        ELSE
        LET f == IF live THEN liveNetwork(options) ELSE simNetwork
            p == init_cli_profile(wd, f.network, f.restUrl, NoConfig, "default", UNDEF, gen)
            made == [blank EXCEPT !.network = f.network, !.restUrl = f.restUrl,
                                  !.faucetUrl = f.faucetUrl, !.config = p.cfg]
        IN  IF p.out.threw
            THEN [made EXCEPT !.out = Throw(p.out.error, e0 \o p.out.eff)]
            ELSE IF live
            THEN [made EXCEPT !.out = Ok(UNDEF, e0 \o p.out.eff)]
            ELSE LET c == constructorSimulation(wd, f, options, procInit, procFund)
                 IN  [made EXCEPT !.out = [c.out EXCEPT !.eff = e0 \o p.out.eff \o c.out.eff],
                                  !.session = c.session]

----------------------------------------------------------------------------
(* The Proxy around the instance, and teardown.                            *)

PublicMethods ==
    {"getWorkingDir", "getSessionPath", "init_cli_profile", "fundAccount",
     "runMoveFunction", "runMoveScript", "publishPackage", "deployCodeObject",
     "upgradeCodeObject", "runViewFunction", "viewResourceGroup", "viewResource",
     "getAPTBalanceFungibleStore", "cleanup", "getCurrentTimeMicros", "getGasSchedule",
     "getAccountAddress"}

PoisonedError == "Harness is poisoned: cleanup() has already been called"

\* A get trap that lets the two accessors through after cleanup.
proxyPoisons_accessorsExempt(isPoisoned, prop) ==
    isPoisoned /\ prop \notin {"cleanup", "getWorkingDir", "getSessionPath"}

\* The get trap, for a property that is a method: TRUE when the caller gets
\* the function that throws instead of the method.
proxyPoisons(isPoisoned, prop) == isPoisoned /\ prop # "cleanup"

\* What rmSync(workingDir, {recursive, force}) may do: remove everything,
\* fail having removed nothing, or fail having removed part of the tree.
RmOutcomes == {"removed", "failed", "partial"}

\* A cleanup that removes without `force`: a directory that is already gone
\* makes rmSync throw, and the error is not caught.
cleanup_throwsWhenGone(wd, dir, cfg, sess, rm) ==
    LET e == <<Fs("rmSync", wd)>>
    IN  IF ~dir
        THEN [out |-> Throw("ENOENT: no such file or directory", e),
              dirExists |-> FALSE, config |-> NoConfig, session |-> FALSE]
        ELSE IF rm = "removed"
        THEN [out |-> Ok(UNDEF, e), dirExists |-> FALSE, config |-> NoConfig, session |-> FALSE]
        ELSE [out |-> Ok(UNDEF, e \o <<WarnOf("Failed to cleanup temporary directory " \o wd)>>),
              dirExists |-> TRUE,
              config |-> IF rm = "partial" THEN NoConfig ELSE cfg,
              session |-> sess]

\* A cleanup without the try/catch: a failing removal reaches the caller.
cleanup_rethrows(wd, dir, cfg, sess, rm) ==
    LET e == <<Fs("rmSync", wd)>>
    IN  IF ~dir \/ rm = "removed"
        THEN [out |-> Ok(UNDEF, e), dirExists |-> FALSE, config |-> NoConfig, session |-> FALSE]
        ELSE [out |-> Throw("EACCES: permission denied", e),
              dirExists |-> TRUE,
              config |-> IF rm = "partial" THEN NoConfig ELSE cfg,
              session |-> sess]

\* cleanup(): the outcome and the disk afterwards (poisoned is set first).
cleanup(wd, dir, cfg, sess, rm) ==
    LET e == <<Fs("rmSync", wd)>>
    IN  IF ~dir \/ rm = "removed"
        THEN [out |-> Ok(UNDEF, e), dirExists |-> FALSE, config |-> NoConfig, session |-> FALSE]
        ELSE [out |-> Ok(UNDEF, e \o <<WarnOf("Failed to cleanup temporary directory " \o wd)>>),
              dirExists |-> TRUE,
              config |-> IF rm = "partial" THEN NoConfig ELSE cfg,
              session |-> sess]

----------------------------------------------------------------------------
(* Command construction.  An absent option is UNDEF; an absent list is the *)
(* empty list (the code pushes nothing for either).                        *)

\* options.<name> !== undefined: the caller supplied the option (a number).
Supplied(options, name) == name \in DOMAIN options

\* Number.prototype.toString(), of the small non-negative integers these
\* options are given as.
numberToString(n) == ToString(n)

\* Transaction options that are added only when they are truthy.
addTransactionOptions_truthy(args, options) ==
    args
    \o (IF Supplied(options, "gasUnitPrice") /\ options.gasUnitPrice # 0
        THEN <<"--gas-unit-price", numberToString(options.gasUnitPrice)>> ELSE <<>>)
    \o (IF Supplied(options, "maxGas") /\ options.maxGas # 0
        THEN <<"--max-gas", numberToString(options.maxGas)>> ELSE <<>>)
    \o (IF Supplied(options, "expirationSecs") /\ options.expirationSecs # 0
        THEN <<"--expiration-secs", numberToString(options.expirationSecs)>> ELSE <<>>)

addTransactionOptions(args, options) ==
    args
    \o (IF Supplied(options, "gasUnitPrice")
        THEN <<"--gas-unit-price", numberToString(options.gasUnitPrice)>> ELSE <<>>)
    \o (IF Supplied(options, "maxGas")
        THEN <<"--max-gas", numberToString(options.maxGas)>> ELSE <<>>)
    \o (IF Supplied(options, "expirationSecs")
        THEN <<"--expiration-secs", numberToString(options.expirationSecs)>> ELSE <<>>)

\* entries.map(([key, value]) => `${key}=${value}`).join(",")
RECURSIVE joinEntries(_)
joinEntries(entries) ==
    IF entries = <<>> THEN ""
    ELSE IF Len(entries) = 1 THEN entries[1][1] \o "=" \o entries[1][2]
    ELSE entries[1][1] \o "=" \o entries[1][2] \o "," \o joinEntries(Tail(entries))

\* namedAddresses is [given, entries]: the object's entries in insertion order.
NoNamedAddresses == [given |-> FALSE, entries |-> <<>>]

addNamedAddresses(args, namedAddresses) ==
    IF namedAddresses.given
    THEN args \o <<"--named-addresses", joinEntries(namedAddresses.entries)>>
    ELSE args

addTypeArgsAndArgs(args, options) ==
    args
    \o (IF Len(options.typeArgs) > 0 THEN <<"--type-args">> \o options.typeArgs ELSE <<>>)
    \o (IF Len(options.args) > 0 THEN <<"--args">> \o options.args ELSE <<>>)

addPackageOptions(args, options) ==
    args
    \o (IF Truthy(options.includedArtifacts)
        THEN <<"--included-artifacts", options.includedArtifacts>> ELSE <<>>)
    \o (IF options.chunked THEN <<"--chunked-publish">> ELSE <<>>)

runMoveFunctionArgs(wd, live, options) ==
    addTransactionOptions(
        addTypeArgsAndArgs(
            <<"move", "run">>
            \o (IF live THEN <<"--assume-yes">> ELSE <<"--session", getSessionPath(wd)>>)
            \o <<"--profile", options.sender, "--function-id", options.functionId>>,
            options),
        options)
    \o options.extraFlags

compileArgs(options) ==
    addNamedAddresses(<<"move", "compile", "--package-dir", options.packageDir>>,
                      options.namedAddresses)
    \o options.compileExtraFlags

compiledScriptPath(options, packageName) ==
    join(join(join(join(options.packageDir, "build"), packageName), "bytecode_scripts"),
         options.scriptName \o ".mv")

runScriptArgs(wd, live, options, packageName) ==
    addTransactionOptions(
        addTypeArgsAndArgs(
            <<"move", "run-script">>
            \o (IF live THEN <<"--assume-yes">> ELSE <<"--session", getSessionPath(wd)>>)
            \o <<"--profile", options.sender,
                 "--compiled-script-path", compiledScriptPath(options, packageName)>>,
            options),
        options)
    \o options.runExtraFlags

\* A publish command that names the session in every mode.
publishPackageArgs_sessionInLive(wd, live, options) ==
    addTransactionOptions(
        addPackageOptions(
            addNamedAddresses(
                <<"move", "publish", "--session", getSessionPath(wd)>>
                \o <<"--profile", options.sender, "--package-dir", options.packageDir>>,
                options.namedAddresses),
            options),
        options)
    \o options.extraFlags

publishPackageArgs(wd, live, options) ==
    addTransactionOptions(
        addPackageOptions(
            addNamedAddresses(
                <<"move", "publish">>
                \o (IF live THEN <<"--assume-yes">> ELSE <<"--session", getSessionPath(wd)>>)
                \o <<"--profile", options.sender, "--package-dir", options.packageDir>>,
                options.namedAddresses),
            options),
        options)
    \o options.extraFlags

deployCodeObjectArgs(wd, live, options) ==
    addTransactionOptions(
        addPackageOptions(
            addNamedAddresses(
                <<"move", "deploy-object", "--assume-yes">>
                \o (IF ~live THEN <<"--session", getSessionPath(wd)>> ELSE <<>>)
                \o <<"--profile", options.sender, "--package-dir", options.packageDir,
                     "--address-name", options.packageAddressName>>,
                options.namedAddresses),
            options),
        options)
    \o options.extraFlags

upgradeCodeObjectArgs(wd, live, options) ==
    addTransactionOptions(
        addPackageOptions(
            addNamedAddresses(
                <<"move", "upgrade-object", "--assume-yes">>
                \o (IF ~live THEN <<"--session", getSessionPath(wd)>> ELSE <<>>)
                \o <<"--profile", options.sender, "--package-dir", options.packageDir,
                     "--address-name", options.packageAddressName,
                     "--object-address", options.objectAddress>>,
                options.namedAddresses),
            options),
        options)
    \o options.extraFlags

runViewFunctionArgs(wd, live, options) ==
    addTypeArgsAndArgs(
        <<"move", "view">>
        \o (IF ~live THEN <<"--session", getSessionPath(wd)>> ELSE <<>>)
        \o <<"--function-id", options.functionId>>,
        options)
    \o options.extraFlags

viewResourceGroupArgs(wd, account, resourceGroup, derivedObjectAddress) ==
    <<"move", "sim", "view-resource-group", "--session", getSessionPath(wd),
      "--account", account, "--resource-group", resourceGroup>>
    \o (IF Truthy(derivedObjectAddress)
        THEN <<"--derived-object-address", derivedObjectAddress>> ELSE <<>>)

viewResourceArgs(wd, account, resource) ==
    <<"move", "sim", "view-resource", "--session", getSessionPath(wd),
      "--account", account, "--resource", resource>>

----------------------------------------------------------------------------
(* Events.                                                                 *)

\* A synchronous fetch: the request fails (the call throws), or answers a
\* status with a body that parses as JSON or does not.
HttpError == [neterr |-> TRUE, status |-> 0, statusText |-> "", parses |-> FALSE, body |-> <<>>]
HttpStatus(code, text) ==
    [neterr |-> FALSE, status |-> code, statusText |-> text, parses |-> FALSE, body |-> <<>>]
HttpJson(b) == [neterr |-> FALSE, status |-> 200, statusText |-> "OK", parses |-> TRUE, body |-> b]
HttpGarbage == [neterr |-> FALSE, status |-> 200, statusText |-> "OK", parses |-> FALSE, body |-> <<>>]

responseOk(http) == http.status >= 200 /\ http.status <= 299

\* A template literal renders undefined as the text "undefined".
Interpolate(x) == IF x = UNDEF THEN "undefined" ELSE x

\* What fetchTransactionEvents yields: it threw, or it returned an array
\* (defined) or undefined.
EventsOf(events, eff) ==
    [threw |-> FALSE, error |-> "", defined |-> TRUE, events |-> events, eff |-> eff]
NoEvents(eff) ==
    [threw |-> FALSE, error |-> "", defined |-> FALSE, events |-> <<>>, eff |-> eff]
EventsThrow(msg, eff) ==
    [threw |-> TRUE, error |-> msg, defined |-> FALSE, events |-> <<>>, eff |-> eff]

\* A reshaping that hands every record back as it is on disk.
normalizeEvent_asIs(event) == event

\* One element of events.json, reshaped to the REST format.
normalizeEvent(event) ==
    IF "V2" \in DOMAIN event
    THEN [type |-> event.V2.type_tag, data |-> event.V2.event_data]
    ELSE event

\* An index that names the entry before the latest one.
lastTxIndex_previous(disk) == IF disk.hasOps THEN ToString(disk.ops - 2) ELSE "NaN"

\* config.ops - 1, as the template literal prints it.
lastTxIndex(disk) == IF disk.hasOps THEN ToString(disk.ops - 1) ELSE "NaN"

\* The session directory as one simulation-mode lookup finds it:
\*   sessionExists, configExists : existsSync of the directory and config.json
\*   configParses, hasOps, ops   : config.json parses, and its ops counter
\*   files                       : readdirSync(sessionPath), in its order
\*   logs                        : per entry, events.json: [exists, parses,
\*                                 isArray, items]
fetchSimulationEvents(wd, disk) ==
    LET sp == getSessionPath(wd)
        cp == join(sp, "config.json")
        e1 == <<Fs("existsSync", sp)>>
        e2 == e1 \o <<Fs("existsSync", cp)>>
        e3 == e2 \o <<Fs("readFileSync", cp)>>
        e4 == e3 \o <<Fs("readdirSync", sp)>>
        prefix == "[" \o lastTxIndex(disk) \o "]"
        hits == SelectSeq(disk.files, LAMBDA f : StartsWith(f, prefix))
    IN  IF ~disk.sessionExists THEN NoEvents(e1)
        ELSE IF ~disk.configExists THEN NoEvents(e2)
        ELSE IF ~disk.configParses
        THEN NoEvents(e3 \o <<WarnOf("Failed to read events")>>)
        ELSE IF hits = <<>> THEN NoEvents(e4)
        ELSE
        LET txDir == hits[1]
            ep == join(join(sp, txDir), "events.json")
            log == disk.logs[txDir]
            e5 == e4 \o <<Fs("existsSync", ep)>>
            e6 == e5 \o <<Fs("readFileSync", ep)>>
        IN  IF ~log.exists THEN NoEvents(e5)
            ELSE IF ~log.parses THEN NoEvents(e6 \o <<WarnOf("Failed to read events")>>)
            ELSE IF ~log.isArray THEN NoEvents(e6)
            ELSE EventsOf([i \in 1..Len(log.items) |-> normalizeEvent(log.items[i])], e6)

fetchLiveEvents(rest, transactionHash, http) ==
    LET url == rest \o "/v1/transactions/by_hash/" \o Interpolate(transactionHash)
        e == <<FetchOf(url)>>
    IN  IF http.neterr THEN EventsThrow("FetchError: request failed", e)
        ELSE IF ~responseOk(http)
        THEN NoEvents(e \o <<WarnOf("Failed to fetch transaction events")>>)
        ELSE IF ~http.parses THEN EventsThrow("SyntaxError: Unexpected token in JSON", e)
        ELSE IF "events" \in DOMAIN http.body THEN EventsOf(http.body.events, e)
        ELSE NoEvents(e)

fetchTransactionEvents(wd, live, rest, transactionHash, world) ==
    IF live THEN fetchLiveEvents(rest, transactionHash, world.http)
    ELSE fetchSimulationEvents(wd, world.disk)

\* res.Result?.success is truthy
resultSuccess(res) ==
    /\ "Result" \in DOMAIN res
    /\ "success" \in DOMAIN res.Result
    /\ res.Result.success = TRUE

\* An attachment that looks events up whatever the transaction reported.
maybeIncludeEvents_whateverTheOutcome(wd, live, rest, r, includeEvents, world) ==
    IF includeEvents = TRUE
    THEN LET ev == fetchTransactionEvents(wd, live, rest,
                                          Get(r.ret.Result, "transaction_hash"), world)
         IN  IF ev.threw THEN Throw(ev.error, r.eff \o ev.eff)
             ELSE IF ev.defined
             THEN Ok([r.ret EXCEPT !.Result = [events |-> ev.events] @@ r.ret.Result],
                     r.eff \o ev.eff)
             ELSE Ok(r.ret, r.eff \o ev.eff)
    ELSE r

\* maybeIncludeEvents(res, includeEvents): r is the outcome that holds res.
maybeIncludeEvents(wd, live, rest, r, includeEvents, world) ==
    IF includeEvents = TRUE /\ resultSuccess(r.ret)
    THEN LET ev == fetchTransactionEvents(wd, live, rest,
                                          Get(r.ret.Result, "transaction_hash"), world)
         IN  IF ev.threw THEN Throw(ev.error, r.eff \o ev.eff)
             ELSE IF ev.defined
             THEN Ok([r.ret EXCEPT !.Result = [events |-> ev.events] @@ r.ret.Result],
                     r.eff \o ev.eff)
             ELSE Ok(r.ret, r.eff \o ev.eff)
    ELSE r

----------------------------------------------------------------------------
(* Transaction-executing operations.                                       *)

\* options.includeEvents, which callers may leave out (undefined is falsy).
wantsEvents(options) == "includeEvents" \in DOMAIN options /\ options.includeEvents

\* An engine front that turns an unsuccessful transaction into an exception.
executeTransaction_throwsOnFailure(wd, live, rest, args, includeEvents, proc, world) ==
    LET r == runAptos(args, proc)
    IN  IF r.threw THEN r
        ELSE IF ~resultSuccess(r.ret) THEN Throw("Transaction failed", r.eff)
        ELSE maybeIncludeEvents(wd, live, rest, r, includeEvents, world)

\* Run the engine, then attach events when asked to.
executeTransaction(wd, live, rest, args, includeEvents, proc, world) ==
    LET r == runAptos(args, proc)
    IN  IF r.threw THEN r ELSE maybeIncludeEvents(wd, live, rest, r, includeEvents, world)

runMoveFunction(wd, live, rest, options, proc, world) ==
    executeTransaction(wd, live, rest, runMoveFunctionArgs(wd, live, options),
                       wantsEvents(options), proc, world)

publishPackage(wd, live, rest, options, proc, world) ==
    executeTransaction(wd, live, rest, publishPackageArgs(wd, live, options),
                       wantsEvents(options), proc, world)

upgradeCodeObject(wd, live, rest, options, proc, world) ==
    executeTransaction(wd, live, rest, upgradeCodeObjectArgs(wd, live, options),
                       wantsEvents(options), proc, world)

\* res.Result.deployed_object_address, given the 0x prefix when it lacks it.
normalizeDeployedAddress(res) ==
    IF /\ "Result" \in DOMAIN res
       /\ "deployed_object_address" \in DOMAIN res.Result
       /\ Truthy(res.Result.deployed_object_address)
    THEN [res EXCEPT !.Result.deployed_object_address = normalizeAddress(@)]
    ELSE res

deployCodeObject(wd, live, rest, options, proc, world) ==
    LET r == runAptos(deployCodeObjectArgs(wd, live, options), proc)
    IN  IF r.threw THEN r
        ELSE maybeIncludeEvents(wd, live, rest,
                                [r EXCEPT !.ret = normalizeDeployedAddress(r.ret)],
                                wantsEvents(options), world)

\* Move.toml of the package directory: [exists, parses, name], name UNDEF
\* when the manifest has no package.name.
getMovePackageNameFromManifest(packageDir, manifest) ==
    LET path == join(packageDir, "Move.toml")
        e1 == <<Fs("existsSync", path)>>
        e2 == e1 \o <<Fs("readFileSync", path)>>
    IN  IF ~manifest.exists THEN Throw("Move.toml not found", e1)
        ELSE IF ~manifest.parses \/ ~Truthy(manifest.name)
        THEN Throw("Failed to parse Move.toml", e2)
        ELSE Ok(manifest.name, e2)

\* A script run that goes on to the run phase whatever the compiler said.
runMoveScript_runsAnyway(wd, live, rest, options, procCompile, manifest, proc, world) ==
    LET c == runAptos(compileArgs(options), procCompile)
        m == getMovePackageNameFromManifest(options.packageDir, manifest)
    IN  IF m.threw THEN Throw(m.error, c.eff \o m.eff)
        ELSE
        LET r == executeTransaction(wd, live, rest,
                                    runScriptArgs(wd, live, options, m.ret),
                                    wantsEvents(options), proc, world)
        IN  [r EXCEPT !.eff = c.eff \o m.eff \o r.eff]

runMoveScript(wd, live, rest, options, procCompile, manifest, proc, world) ==
    LET c == runAptos(compileArgs(options), procCompile)
    IN  IF c.threw THEN c
        ELSE
        LET m == getMovePackageNameFromManifest(options.packageDir, manifest)
        IN  IF m.threw THEN Throw(m.error, c.eff \o m.eff)
            ELSE
            LET r == executeTransaction(wd, live, rest,
                                        runScriptArgs(wd, live, options, m.ret),
                                        wantsEvents(options), proc, world)
            IN  [r EXCEPT !.eff = c.eff \o m.eff \o r.eff]

----------------------------------------------------------------------------
(* Read-only operations.                                                   *)

\* JSON null, where a payload field may hold null or an object.
JsNull == [null |-> TRUE]
IsNull(v) == "null" \in DOMAIN v

\* `res.Result` is an object (neither missing nor null).
hasResult(res) == "Result" \in DOMAIN res /\ ~IsNull(res.Result)

runViewFunction(wd, live, options, proc) ==
    runAptos(runViewFunctionArgs(wd, live, options), proc)

\* A group view that asks the simulation engine in every mode.
viewResourceGroup_runsInLive(wd, live, account, resourceGroup, derivedObjectAddress, proc) ==
    runAptos(viewResourceGroupArgs(wd, account, resourceGroup, derivedObjectAddress), proc)

viewResourceGroup(wd, live, account, resourceGroup, derivedObjectAddress, proc) ==
    IF live
    THEN Throw("viewResourceGroup is not supported in live mode. Use viewResource() to query individual resources within a group directly.", <<>>)
    ELSE runAptos(viewResourceGroupArgs(wd, account, resourceGroup, derivedObjectAddress), proc)

\* encodeURIComponent, on the characters of Move type names.
EncodeChar(c) ==
    CASE c = ":" -> "%3A"
      [] c = "<" -> "%3C"
      [] c = ">" -> "%3E"
      [] c = "," -> "%2C"
      [] c = " " -> "%20"
      [] OTHER -> c

RECURSIVE encodeURIComponent(_)
encodeURIComponent(s) ==
    IF s = "" THEN "" ELSE EncodeChar(Head(s)) \o encodeURIComponent(Tail(s))

\* The live-mode reads take an address as it is and resolve anything else
\* as a profile name.
resolveAddress(account, procLookup) ==
    IF ~StartsWith(account, "0x") THEN getAccountAddress(account, procLookup)
    ELSE Ok(account, <<>>)

\* A live-mode reading that treats 404 like any other failure status.
viewResourceResponse_throwsOn404(http, eff) ==
    IF http.neterr THEN Throw("FetchError: request failed", eff)
    ELSE IF ~responseOk(http)
    THEN Throw("Failed to fetch resource: " \o ToString(http.status)
               \o " " \o http.statusText, eff)
    ELSE IF ~http.parses THEN Throw("SyntaxError: Unexpected token in JSON", eff)
    ELSE IF "data" \in DOMAIN http.body
    THEN Ok([Result |-> http.body.data], eff)
    ELSE Ok(<<>>, eff)

\* viewResource in live mode, from the response of fetch(url) on.
viewResourceResponse(http, eff) ==
    IF http.neterr THEN Throw("FetchError: request failed", eff)
    ELSE IF ~responseOk(http)
    THEN IF http.status = 404 THEN Ok([Result |-> JsNull], eff)
         ELSE Throw("Failed to fetch resource: " \o ToString(http.status)
                    \o " " \o http.statusText, eff)
    ELSE IF ~http.parses THEN Throw("SyntaxError: Unexpected token in JSON", eff)
    ELSE IF "data" \in DOMAIN http.body
    THEN Ok([Result |-> http.body.data], eff)
    ELSE Ok(<<>>, eff)

viewResource(wd, live, rest, account, resource, procLookup, proc, http) ==
    IF live
    THEN LET a == resolveAddress(account, procLookup)
         IN  IF a.threw THEN a
             ELSE
             LET url == rest \o "/v1/accounts/" \o a.ret \o "/resource/"
                        \o encodeURIComponent(resource)
             IN  viewResourceResponse(http, a.eff \o <<FetchOf(url)>>)
    ELSE runAptos(viewResourceArgs(wd, account, resource), proc)

\* String.prototype.replace(p, ""), which removes the first occurrence only.
RECURSIVE removeFirst(_, _)
removeFirst(s, p) ==
    IF Len(s) < Len(p) THEN s
    ELSE IF StartsWith(s, p) THEN SubSeq(s, Len(p) + 1, Len(s))
    ELSE Head(s) \o removeFirst(Tail(s), p)

RECURSIVE padStart(_, _, _)
padStart(s, n, fill) == IF Len(s) >= n THEN s ELSE padStart(fill \o s, n, fill)

AddressHexLength == 64

\* SHA3-256 is kept symbolic: the digest names the bytes that were hashed.
computeDerivedObjectAddress(sourceAddress, deriveFromAddress) ==
    "0x" \o "sha3-256("
         \o padStart(removeFirst(sourceAddress, "0x"), AddressHexLength, "0")
         \o padStart(removeFirst(deriveFromAddress, "0x"), AddressHexLength, "0")
         \o "fc" \o ")"

Digits == {"0", "1", "2", "3", "4", "5", "6", "7", "8", "9"}

RECURSIVE isDecimal(_)
isDecimal(s) == s = "" \/ (Head(s) \in Digits /\ isDecimal(Tail(s)))

RECURSIVE stripLeadingZeros(_)
stripLeadingZeros(s) ==
    IF Len(s) > 1 /\ Head(s) = "0" THEN stripLeadingZeros(Tail(s)) ELSE s

\* BigInt(x) of a JSON string or of undefined; the bigint is its decimal text.
toBigInt(x, eff) ==
    IF x = UNDEF THEN Throw("TypeError: Cannot convert undefined to a BigInt", eff)
    ELSE IF ~isDecimal(x) THEN Throw("SyntaxError: Cannot convert to a BigInt", eff)
    ELSE IF x = "" THEN Ok("0", eff)
    ELSE Ok(stripLeadingZeros(x), eff)

FungibleStore == "0x1::fungible_asset::FungibleStore"

\* A balance query that answers 0 to every response that is not a success.
getAPTBalanceFungibleStore_zeroOnAnyStatus(wd, live, rest, account, procLookup, proc, http) ==
    LET a == resolveAddress(account, procLookup)
        r == viewResourceGroup(wd, live, account, "0x1::object::ObjectGroup", "0xA", proc)
        eff == a.eff \o <<FetchOf(rest \o "/v1/accounts/"
                                  \o computeDerivedObjectAddress(a.ret, "0xA") \o "/resource/"
                                  \o encodeURIComponent(FungibleStore))>>
    IN  IF live
        THEN IF a.threw THEN a
             ELSE IF http.neterr THEN Throw("FetchError: request failed", eff)
             ELSE IF ~responseOk(http) \/ ~http.parses \/ "data" \notin DOMAIN http.body
             THEN Ok("0", eff)
             ELSE toBigInt(Get(http.body.data, "balance"), eff)
        ELSE IF r.threw THEN r
             ELSE IF ~hasResult(r.ret) \/ FungibleStore \notin DOMAIN r.ret.Result
             THEN Ok("0", r.eff)
             ELSE toBigInt(Get(r.ret.Result[FungibleStore], "balance"), r.eff)

getAPTBalanceFungibleStore(wd, live, rest, account, procLookup, proc, http) ==
    IF live
    THEN LET a == resolveAddress(account, procLookup)
         IN  IF a.threw THEN a
             ELSE
             LET storeAddress == computeDerivedObjectAddress(a.ret, "0xA")
                 url == rest \o "/v1/accounts/" \o storeAddress \o "/resource/"
                        \o encodeURIComponent(FungibleStore)
                 eff == a.eff \o <<FetchOf(url)>>
             IN  IF http.neterr THEN Throw("FetchError: request failed", eff)
                 ELSE IF ~responseOk(http)
                 THEN IF http.status = 404 THEN Ok("0", eff)
                      ELSE Throw("Failed to fetch FungibleStore: " \o ToString(http.status)
                                 \o " " \o http.statusText, eff)
                 ELSE IF ~http.parses THEN Throw("SyntaxError: Unexpected token in JSON", eff)
                 ELSE IF "data" \notin DOMAIN http.body
                 THEN Throw("TypeError: Cannot read properties of undefined", eff)
                 ELSE toBigInt(Get(http.body.data, "balance"), eff)
    ELSE LET r == viewResourceGroup(wd, live, account, "0x1::object::ObjectGroup", "0xA", proc)
         IN  IF r.threw THEN r
             ELSE IF ~hasResult(r.ret) \/ FungibleStore \notin DOMAIN r.ret.Result
             THEN Ok("0", r.eff)
             ELSE toBigInt(Get(r.ret.Result[FungibleStore], "balance"), r.eff)

getCurrentTimeMicros(wd, live, rest, procLookup, proc, http) ==
    LET r == viewResource(wd, live, rest, "0x1", "0x1::timestamp::CurrentTimeMicroseconds",
                          procLookup, proc, http)
    IN  IF r.threw THEN r
        ELSE IF ~hasResult(r.ret) \/ ~Truthy(Get(r.ret.Result, "microseconds"))
        THEN Throw("Failed to get current time micros", r.eff)
        ELSE toBigInt(r.ret.Result.microseconds, r.eff)

getGasSchedule(wd, live, rest, procLookup, proc, http) ==
    LET r == viewResource(wd, live, rest, "0x1", "0x1::gas_schedule::GasScheduleV2",
                          procLookup, proc, http)
    IN  IF r.threw THEN r
        ELSE IF ~hasResult(r.ret) THEN Throw("Failed to get gas schedule", r.eff)
        ELSE Ok(r.ret.Result, r.eff)

----------------------------------------------------------------------------
(* The state machine: what a caller can do with the module.                *)

NoCall == [op |-> "none", arg |-> <<>>, threw |-> FALSE, error |-> "", ret |-> UNDEF, eff |-> <<>>]

Called(op, arg, out) ==
    [op |-> op, arg |-> arg, threw |-> out.threw, error |-> out.error,
     ret |-> out.ret, eff |-> out.eff]

\* A call record that also keeps what the environment answered.
Hearing(call, heard) == call @@ [heard |-> heard]

Init ==
    /\ life = "none"
    /\ workingDir = ""
    /\ poisoned = FALSE
    /\ isLiveMode = FALSE
    /\ network = UNDEF
    /\ restUrl = UNDEF
    /\ faucetUrl = UNDEF
    /\ dirExists = FALSE
    /\ config = NoConfig
    /\ session = FALSE
    /\ cleanups = 0
    /\ last = NoCall
    /\ ledger = <<>>
    /\ funded = <<>>
    /\ fleet = <<>>
    /\ cmd = <<>>
    /\ sdir = <<>>

\* What callers pass to the factories.
ForkNetworks == {UNDEF, "", "mainnet"}
ApiKeys == {UNDEF, "", "aptoslabs_key"}
LiveNetworks == {"", "mainnet", "MainNet", "TESTNET", "devnet", "Local", "http://Node.example:8080"}
FaucetUrls == {UNDEF, "", "http://faucet.example:8081"}

\* A factory call: run the constructor and keep what it left behind.
Create(op, options) ==
    /\ life = "none"
    /\ \E gen \in FreshKeys, procInit \in ResultProcs, procFund \in ResultProcs :
          LET c == constructor(options, gen, procInit, procFund)
          IN  /\ life' = IF c.out.threw THEN "failed" ELSE "active"
              /\ workingDir' = c.workingDir
              /\ poisoned' = FALSE
              /\ isLiveMode' = c.isLiveMode
              /\ network' = c.network
              /\ restUrl' = c.restUrl
              /\ faucetUrl' = c.faucetUrl
              /\ dirExists' = TRUE
              /\ config' = c.config
              /\ session' = c.session
              /\ cleanups' = 0
              /\ last' = Called(op, options, c.out)
              /\ UNCHANGED aside

createLocal ==
    Create("createLocal",
           [mode |-> "simulation", network |-> UNDEF, apiKey |-> UNDEF,
            networkVersion |-> NoVersion, faucetUrl |-> UNDEF])

createNetworkFork ==
    \E n \in ForkNetworks, k \in ApiKeys, v \in NetworkVersions :
        Create("createNetworkFork",
               [mode |-> "simulation", network |-> n, apiKey |-> k,
                networkVersion |-> v, faucetUrl |-> UNDEF])

createLive ==
    \E n \in LiveNetworks, f \in FaucetUrls :
        Create("createLive",
               [mode |-> "live", network |-> n, apiKey |-> UNDEF,
                networkVersion |-> NoVersion, faucetUrl |-> f])

\* A method call on the returned Proxy is possible once a harness exists.
CanCall == life = "active"

\* The call of a method the Proxy has replaced by the function that throws.
Poisoned(op, arg) ==
    /\ last' = Called(op, arg, Throw(PoisonedError, <<>>))
    /\ UNCHANGED <<life, harnessFields, poisoned, dirExists, config, session, cleanups, aside>>

\* A call that reads the instance and the outside world but changes neither.
ReadOnly(op, arg, out) ==
    /\ last' = Called(op, arg, out)
    /\ UNCHANGED <<life, harnessFields, poisoned, dirExists, config, session, cleanups, aside>>

ReadOnlyHearing(op, arg, heard, out) ==
    /\ last' = Hearing(Called(op, arg, out), heard)
    /\ UNCHANGED <<life, harnessFields, poisoned, dirExists, config, session, cleanups, aside>>

Call_getWorkingDir ==
    /\ CanCall
    /\ IF proxyPoisons(poisoned, "getWorkingDir")
       THEN Poisoned("getWorkingDir", <<>>)
       ELSE ReadOnly("getWorkingDir", <<>>, Ok(getWorkingDir(workingDir), <<>>))

Call_getSessionPath ==
    /\ CanCall
    /\ IF proxyPoisons(poisoned, "getSessionPath")
       THEN Poisoned("getSessionPath", <<>>)
       ELSE ReadOnly("getSessionPath", <<>>, Ok(getSessionPath(workingDir), <<>>))

\* Ed25519PrivateKey.generate() is consulted only when no key is supplied.
GeneratedKeys(privateKey) == IF Truthy(privateKey) THEN {privateKey} ELSE FreshKeys

Call_init_cli_profile ==
    /\ CanCall
    /\ \E name \in ProfileNames, pk \in PrivateKeyInputs :
          LET arg == [profile_name |-> name, privateKey |-> pk]
          IN  IF proxyPoisons(poisoned, "init_cli_profile")
              THEN Poisoned("init_cli_profile", arg)
              ELSE \E gen \in GeneratedKeys(pk) :
                      LET r == init_cli_profile(workingDir, network, restUrl, config,
                                                name, pk, gen)
                      IN  /\ config' = r.cfg
                          /\ last' = Called("init_cli_profile", arg, r.out)
                          /\ UNCHANGED <<life, harnessFields, poisoned, dirExists, session, cleanups, aside>>

\* The account arguments callers pass: profile names and a raw address (the
\* address of the profiles made from the first private key).
Accounts == ProfileNames \cup {"0xacc11"}

\* The answers to the commands of one fundAccount call: the address lookup
\* runs only in live mode with a faucet, the funding command only after it.
FundLookupProcs ==
    IF isLiveMode /\ Truthy(faucetUrl) THEN ShowProfilesProcs(config) ELSE {ProcError}

FundProcs(account, proc1) ==
    IF ~isLiveMode THEN ResultProcs
    ELSE IF Truthy(faucetUrl) /\ ~fundAccountAddress(account, proc1).threw THEN FaucetProcs
    ELSE {ProcError}

Call_fundAccount ==
    /\ CanCall
    /\ \E account \in Accounts, amount \in Amounts :
          LET arg == [account |-> account, amount |-> amount]
          IN  IF proxyPoisons(poisoned, "fundAccount")
              THEN Poisoned("fundAccount", arg)
              ELSE \E proc1 \in FundLookupProcs :
                   \E proc2 \in FundProcs(account, proc1) :
                      ReadOnly("fundAccount", arg,
                               fundAccount(workingDir, isLiveMode, network, faucetUrl,
                                           account, amount, proc1, proc2))

Call_getAccountAddress ==
    /\ CanCall
    /\ \E profile \in Accounts :
          IF proxyPoisons(poisoned, "getAccountAddress")
          THEN Poisoned("getAccountAddress", [profile |-> profile])
          ELSE \E proc \in ShowProfilesProcs(config) :
                  ReadOnlyHearing("getAccountAddress", [profile |-> profile],
                                  [proc |-> proc], getAccountAddress(profile, proc))

Call_cleanup ==
    /\ CanCall
    /\ cleanups < MaxCleanups
    /\ \E rm \in RmOutcomes :
          LET c == cleanup(workingDir, dirExists, config, session, rm)
          IN  /\ ~proxyPoisons(poisoned, "cleanup")
              /\ poisoned' = TRUE
              /\ dirExists' = c.dirExists
              /\ config' = c.config
              /\ session' = c.session
              /\ last' = Called("cleanup", <<>>, c.out)
              /\ cleanups' = cleanups + 1
              /\ UNCHANGED <<life, harnessFields, aside>>

----------------------------------------------------------------------------
(* Calls of the transaction-executing and read-only operations, with the   *)
(* options and the answers of the outside world drawn from small samples.  *)

TxOptions(includeEvents) ==
    [sender |-> "default", functionId |-> "0x1::aptos_account::transfer",
     typeArgs |-> <<>>, args |-> <<"address:default", "u64:100">>,
     maxGas |-> IF includeEvents THEN 0 ELSE 2000000,
     extraFlags |-> <<>>, includeEvents |-> includeEvents,
     packageDir |-> "move/message", scriptName |-> "main",
     namedAddresses |-> IF includeEvents
                        THEN [given |-> TRUE, entries |-> <<<<"message", "default">>>>]
                        ELSE NoNamedAddresses,
     compileExtraFlags |-> <<>>, runExtraFlags |-> <<>>,
     includedArtifacts |-> UNDEF, chunked |-> includeEvents,
     packageAddressName |-> "message", objectAddress |-> "0xobj"]
    @@ (IF includeEvents THEN [gasUnitPrice |-> 100, expirationSecs |-> 0] ELSE <<>>)

\* A record without one of its fields: an option the caller left out.
Without(r, field) == [f \in (DOMAIN r) \ {field} |-> r[f]]

\* The options with the three transaction options supplied (two of them as
\* 0), with one supplied, and with none and no includeEvents either.
SampleTxOptions ==
    {TxOptions(b) : b \in BOOLEAN}
    \cup {Without(Without(TxOptions(FALSE), "includeEvents"), "maxGas")}

TxSuccess == [Result |-> [success |-> TRUE, transaction_hash |-> "0xh1",
                          vm_status |-> "Executed successfully"]]
TxAbort == [Result |-> [success |-> FALSE, transaction_hash |-> "0xh2",
                        vm_status |-> "Move abort"]]
DeploySuccess(addr) ==
    [Result |-> [success |-> TRUE, transaction_hash |-> "0xh3",
                 deployed_object_address |-> addr]]

TxProcs == {ProcExit(1), ProcJson(TxSuccess), ProcJson(TxAbort)}
DeployProcs == {ProcGarbage, ProcJson(DeploySuccess("0xobj")), ProcJson(DeploySuccess("obj")),
                ProcJson(TxAbort)}

\* Session directories and REST answers an event lookup may meet.
V2Event == [V2 |-> [type_tag |-> "0x1::transaction_fee::FeeStatement",
                    event_data |-> [total_charge_gas_units |-> "4"]]]
V2MessageEvent == [V2 |-> [type_tag |-> "0xcafe::message::MessageChange",
                           event_data |-> [to_message |-> "hello"]]]
RestEvent == [type |-> "0x1::transaction_fee::FeeStatement",
              data |-> [total_charge_gas_units |-> "4"]]

EventLog(items) == [exists |-> TRUE, parses |-> TRUE, isArray |-> TRUE, items |-> items]

SessionDisk(hasConfig, log) ==
    [sessionExists |-> session, configExists |-> hasConfig, configParses |-> TRUE,
     hasOps |-> TRUE, ops |-> 2,
     files |-> <<"[0] fund (default)", "[1] execute 0x1::aptos_account::transfer", "config.json">>,
     logs |-> [f \in {"[0] fund (default)", "[1] execute 0x1::aptos_account::transfer"} |-> log]]

QuietHttp == HttpStatus(404, "Not Found")
QuietWorld == [http |-> QuietHttp, disk |-> SessionDisk(FALSE, EventLog(<<>>))]

EventWorlds ==
    IF isLiveMode
    THEN {[QuietWorld EXCEPT !.http = h] :
             h \in {HttpError, QuietHttp, HttpGarbage, HttpJson([events |-> <<RestEvent>>]),
                    HttpJson([hash |-> "0xh1"])}}
    ELSE {[QuietWorld EXCEPT !.disk = d] :
             d \in {SessionDisk(FALSE, EventLog(<<>>)),
                    SessionDisk(TRUE, EventLog(<<V2Event, V2MessageEvent, RestEvent>>)),
                    SessionDisk(TRUE, [EventLog(<<>>) EXCEPT !.exists = FALSE]),
                    SessionDisk(TRUE, [EventLog(<<>>) EXCEPT !.parses = FALSE])}}

\* The outside world is consulted for events only after a successful
\* transaction run with includeEvents.
WorldsFor(options, proc) ==
    IF wantsEvents(options) /\ proc.parsed /\ proc.status = 0 /\ resultSuccess(proc.json)
    THEN EventWorlds ELSE {QuietWorld}

Call_runMoveFunction ==
    /\ CanCall
    /\ \E options \in SampleTxOptions :
          IF proxyPoisons(poisoned, "runMoveFunction")
          THEN Poisoned("runMoveFunction", options)
          ELSE \E proc \in TxProcs : \E world \in WorldsFor(options, proc) :
                  ReadOnlyHearing("runMoveFunction", options, [proc |-> proc, world |-> world],
                           runMoveFunction(workingDir, isLiveMode, restUrl, options, proc, world))

Manifests == {[exists |-> FALSE, parses |-> FALSE, name |-> UNDEF],
              [exists |-> TRUE, parses |-> TRUE, name |-> UNDEF],
              [exists |-> TRUE, parses |-> TRUE, name |-> "message"]}

\* The manifest is read only after a successful compilation, and the script
\* is run only once the package name is known.
ManifestsAfter(procCompile) ==
    IF runAptos(<<>>, procCompile).threw
    THEN {[exists |-> FALSE, parses |-> FALSE, name |-> UNDEF],
          [exists |-> TRUE, parses |-> TRUE, name |-> "message"]}
    ELSE Manifests

RunProcsAfter(procCompile, manifest) ==
    IF runAptos(<<>>, procCompile).threw
       \/ getMovePackageNameFromManifest("", manifest).threw
    THEN {ProcError} ELSE TxProcs

Call_runMoveScript ==
    /\ CanCall
    /\ \E options \in SampleTxOptions :
          IF proxyPoisons(poisoned, "runMoveScript")
          THEN Poisoned("runMoveScript", options)
          ELSE \E procCompile \in {ProcExit(1), ProcGarbage, ProcJson([Result |-> <<"main">>])} :
               \E manifest \in ManifestsAfter(procCompile) :
               \E proc \in RunProcsAfter(procCompile, manifest) :
               \E world \in WorldsFor(options, proc) :
                  ReadOnlyHearing("runMoveScript", options,
                           [procCompile |-> procCompile, manifest |-> manifest,
                            proc |-> proc, world |-> world],
                           runMoveScript(workingDir, isLiveMode, restUrl, options,
                                         procCompile, manifest, proc, world))

Call_publishPackage ==
    /\ CanCall
    /\ \E options \in SampleTxOptions :
          IF proxyPoisons(poisoned, "publishPackage")
          THEN Poisoned("publishPackage", options)
          ELSE \E proc \in TxProcs : \E world \in WorldsFor(options, proc) :
                  ReadOnlyHearing("publishPackage", options, [proc |-> proc, world |-> world],
                           publishPackage(workingDir, isLiveMode, restUrl, options, proc, world))

Call_deployCodeObject ==
    /\ CanCall
    /\ \E options \in SampleTxOptions :
          IF proxyPoisons(poisoned, "deployCodeObject")
          THEN Poisoned("deployCodeObject", options)
          ELSE \E proc \in DeployProcs : \E world \in WorldsFor(options, proc) :
                  ReadOnlyHearing("deployCodeObject", options, [proc |-> proc, world |-> world],
                           deployCodeObject(workingDir, isLiveMode, restUrl, options, proc, world))

Call_upgradeCodeObject ==
    /\ CanCall
    /\ \E options \in SampleTxOptions :
          IF proxyPoisons(poisoned, "upgradeCodeObject")
          THEN Poisoned("upgradeCodeObject", options)
          ELSE \E proc \in TxProcs : \E world \in WorldsFor(options, proc) :
                  ReadOnlyHearing("upgradeCodeObject", options, [proc |-> proc, world |-> world],
                           upgradeCodeObject(workingDir, isLiveMode, restUrl, options, proc, world))


ViewOptions == [functionId |-> "0x1::account::get_sequence_number",
                typeArgs |-> <<>>, args |-> <<"address:default">>, extraFlags |-> <<>>,
                maxGas |-> 5]

ViewProcs == {ProcExit(1), ProcJson([Result |-> <<"1">>])}

Call_runViewFunction ==
    /\ CanCall
    /\ IF proxyPoisons(poisoned, "runViewFunction")
       THEN Poisoned("runViewFunction", ViewOptions)
       ELSE \E proc \in ViewProcs :
               ReadOnly("runViewFunction", ViewOptions,
                        runViewFunction(workingDir, isLiveMode, ViewOptions, proc))

StoreGroup(balance) == [Result |-> (FungibleStore :> [balance |-> balance])]

\* An object group that holds no fungible store.
CoreGroup == [Result |-> ("0x1::object::ObjectCore" :> [owner |-> "0xacc11"])]

GroupProcs == {ProcExit(1), ProcJson([Result |-> JsNull]), ProcJson(CoreGroup),
               ProcJson(StoreGroup("100")), ProcJson(StoreGroup("18446744073709551615"))}

Call_viewResourceGroup ==
    /\ CanCall
    /\ \E account \in {"default", "0xacc11"}, derived \in {UNDEF, "0xA"} :
          LET arg == [account |-> account, resourceGroup |-> "0x1::object::ObjectGroup",
                      derivedObjectAddress |-> derived]
          IN  IF proxyPoisons(poisoned, "viewResourceGroup")
              THEN Poisoned("viewResourceGroup", arg)
              ELSE \E proc \in (IF isLiveMode THEN {ProcError} ELSE GroupProcs) :
                      ReadOnly("viewResourceGroup", arg,
                               viewResourceGroup(workingDir, isLiveMode, account,
                                                 arg.resourceGroup, derived, proc))

\* The answers to one live-mode read: the address lookup runs for a profile
\* name only, the request only once the address is known.
ReadLookupProcs(account) ==
    IF isLiveMode /\ ~StartsWith(account, "0x") THEN ShowProfilesProcs(config) ELSE {ProcError}

ReadHttps(account, procLookup, answers) ==
    IF isLiveMode /\ ~resolveAddress(account, procLookup).threw THEN answers ELSE {QuietHttp}

ResourceProcs == {ProcExit(1), ProcJson([Result |-> JsNull]),
                  ProcJson([Result |-> [sequence_number |-> "1"]])}

ResourceHttps == {HttpError, QuietHttp, HttpStatus(500, "Internal Server Error"),
                  HttpJson([type |-> "0x1::account::Account",
                            data |-> [sequence_number |-> "1"]])}

Call_viewResource ==
    /\ CanCall
    /\ \E account \in {"default", "0xacc11"} :
          LET arg == [account |-> account, resource |-> "0x1::account::Account"]
          IN  IF proxyPoisons(poisoned, "viewResource")
              THEN Poisoned("viewResource", arg)
              ELSE \E procLookup \in ReadLookupProcs(account),
                      proc \in (IF isLiveMode THEN {ProcError} ELSE ResourceProcs) :
                   \E http \in ReadHttps(account, procLookup, ResourceHttps) :
                      ReadOnlyHearing("viewResource", arg,
                               [procLookup |-> procLookup, proc |-> proc, http |-> http],
                               viewResource(workingDir, isLiveMode, restUrl, account,
                                            arg.resource, procLookup, proc, http))

BalanceHttps == {HttpError, QuietHttp, HttpStatus(500, "Internal Server Error"),
                 HttpJson([type |-> FungibleStore, data |-> [balance |-> "100"]]),
                 HttpJson([type |-> FungibleStore,
                           data |-> [balance |-> "18446744073709551615"]])}

Call_getAPTBalanceFungibleStore ==
    /\ CanCall
    /\ \E account \in {"default", "0xacc11"} :
          LET arg == [account |-> account]
          IN  IF proxyPoisons(poisoned, "getAPTBalanceFungibleStore")
              THEN Poisoned("getAPTBalanceFungibleStore", arg)
              ELSE \E procLookup \in ReadLookupProcs(account),
                      proc \in (IF isLiveMode THEN {ProcError} ELSE GroupProcs) :
                   \E http \in ReadHttps(account, procLookup, BalanceHttps) :
                      ReadOnlyHearing("getAPTBalanceFungibleStore", arg,
                               [procLookup |-> procLookup, proc |-> proc, http |-> http],
                               getAPTBalanceFungibleStore(workingDir, isLiveMode, restUrl,
                                                          account, procLookup, proc, http))

TimeProcs == {ProcExit(1), ProcJson([Result |-> JsNull]),
              ProcJson([Result |-> [microseconds |-> "1700000000000000"]])}
TimeHttps == {QuietHttp, HttpJson([type |-> "0x1::timestamp::CurrentTimeMicroseconds",
                                   data |-> [microseconds |-> "1700000000000000"]])}

Call_getCurrentTimeMicros ==
    /\ CanCall
    /\ IF proxyPoisons(poisoned, "getCurrentTimeMicros")
       THEN Poisoned("getCurrentTimeMicros", <<>>)
       ELSE \E proc \in (IF isLiveMode THEN {ProcError} ELSE TimeProcs),
               http \in (IF isLiveMode THEN TimeHttps ELSE {QuietHttp}) :
               ReadOnly("getCurrentTimeMicros", <<>>,
                        getCurrentTimeMicros(workingDir, isLiveMode, restUrl,
                                             ProcError, proc, http))

ScheduleProcs == {ProcExit(1), ProcJson([Result |-> JsNull]),
                  ProcJson([Result |-> [feature_version |-> "12"]])}
ScheduleHttps == {QuietHttp, HttpJson([type |-> "0x1::gas_schedule::GasScheduleV2",
                                       data |-> [feature_version |-> "12"]])}

Call_getGasSchedule ==
    /\ CanCall
    /\ IF proxyPoisons(poisoned, "getGasSchedule")
       THEN Poisoned("getGasSchedule", <<>>)
       ELSE \E proc \in (IF isLiveMode THEN {ProcError} ELSE ScheduleProcs),
               http \in (IF isLiveMode THEN ScheduleHttps ELSE {QuietHttp}) :
               ReadOnly("getGasSchedule", <<>>,
                        getGasSchedule(workingDir, isLiveMode, restUrl, ProcError, proc, http))


Next ==
    \/ createLocal
    \/ createNetworkFork
    \/ createLive
    \/ Call_getWorkingDir
    \/ Call_getSessionPath
    \/ Call_init_cli_profile
    \/ Call_fundAccount
    \/ Call_getAccountAddress
    \/ Call_cleanup
    \/ Call_runMoveFunction
    \/ Call_runMoveScript
    \/ Call_publishPackage
    \/ Call_deployCodeObject
    \/ Call_upgradeCodeObject
    \/ Call_runViewFunction
    \/ Call_viewResourceGroup
    \/ Call_viewResource
    \/ Call_getAPTBalanceFungibleStore
    \/ Call_getCurrentTimeMicros
    \/ Call_getGasSchedule

Spec == Init /\ [][Next]_vars

----------------------------------------------------------------------------
(* Funding against the simulation session.  `aptos move sim fund` and      *)
(* `aptos move sim view-resource-group` are the aptos CLI's; what they do  *)
(* to a balance is taken from the fund-account tests: a u64 balance per    *)
(* account, an amount parsed as a u64, an addition that must not overflow. *)
(* Amounts and balances are decimal texts, as on the command line.         *)

DigitVal(c) ==
    CASE c = "0" -> 0 [] c = "1" -> 1 [] c = "2" -> 2 [] c = "3" -> 3 [] c = "4" -> 4
      [] c = "5" -> 5 [] c = "6" -> 6 [] c = "7" -> 7 [] c = "8" -> 8 [] c = "9" -> 9

DigitChar(n) ==
    CASE n = 0 -> "0" [] n = 1 -> "1" [] n = 2 -> "2" [] n = 3 -> "3" [] n = 4 -> "4"
      [] n = 5 -> "5" [] n = 6 -> "6" [] n = 7 -> "7" [] n = 8 -> "8" [] n = 9 -> "9"

\* a < b for digit strings of the same length.
RECURSIVE lexLess(_, _)
lexLess(a, b) ==
    IF a = "" THEN FALSE
    ELSE IF Head(a) = Head(b) THEN lexLess(Tail(a), Tail(b))
    ELSE DigitVal(Head(a)) < DigitVal(Head(b))

\* a <= b for naturals written without leading zeros.
decLeq(a, b) == Len(a) < Len(b) \/ (Len(a) = Len(b) /\ ~lexLess(b, a))

\* a + b + carry, digit by digit from the right.
RECURSIVE addCarry(_, _, _)
addCarry(a, b, carry) ==
    IF a = "" /\ b = "" THEN (IF carry = 0 THEN "" ELSE DigitChar(carry))
    ELSE LET da == IF a = "" THEN 0 ELSE DigitVal(SubSeq(a, Len(a), Len(a)))
             db == IF b = "" THEN 0 ELSE DigitVal(SubSeq(b, Len(b), Len(b)))
             t == da + db + carry
         IN  addCarry(IF a = "" THEN "" ELSE SubSeq(a, 1, Len(a) - 1),
                      IF b = "" THEN "" ELSE SubSeq(b, 1, Len(b) - 1),
                      t \div 10)
             \o DigitChar(t % 10)

decAdd(a, b) == addCarry(a, b, 0)

\* u64::MAX, 2^64 - 1.
U64Max == "18446744073709551615"

\* An amount as the caller holds it: its JavaScript type and its exact value
\* (sign and decimal digits).
Amount(t, negative, digits) == [t |-> t, negative |-> negative, digits |-> digits]

\* Number.prototype.toString() of an integer-valued double below 1e21: the
\* shortest digits that identify the double, then zeros.  Integers of at
\* most 15 digits print exactly; the larger doubles are listed.
numberDigits(digits) ==
    CASE digits = "9223372036854775808" -> "9223372036854776000"
      [] digits = "18446744073709551616" -> "18446744073709552000"
      [] OTHER -> digits

\* amount.toString()
amountToString(amount) ==
    (IF amount.negative THEN "-" ELSE "")
    \o (IF amount.t = "number" THEN numberDigits(amount.digits) ELSE amount.digits)

\* The balance the session holds for an account ("0" when it holds no store).
balanceOf(book, account) == IF account \in DOMAIN book THEN book[account] ELSE "0"

\* The engine's reading of --amount: a u64, or none.
parsesAsU64(text) ==
    text # "" /\ isDecimal(text) /\ decLeq(stripLeadingZeros(text), U64Max)

\* `aptos move sim fund --account <account> --amount <text>` on the ledger:
\* whether it is accepted, and the ledger afterwards.
simFund(book, account, text) ==
    LET amount == stripLeadingZeros(text)
        sum == decAdd(balanceOf(book, account), amount)
    IN  IF parsesAsU64(text) /\ decLeq(sum, U64Max)
        THEN [accepted |-> TRUE,
              ledger |-> [a \in (DOMAIN book) \cup {account} |->
                             IF a = account THEN sum ELSE book[a]]]
        ELSE [accepted |-> FALSE, ledger |-> book]

\* What the fund command answers.
simFundProc(book, account, text) ==
    IF simFund(book, account, text).accepted
    THEN ProcJson([Result |-> "Success"])
    ELSE ProcExitWithJson(1, [Error |-> "Simulation error"])

\* What `aptos move sim view-resource-group` answers for the object group of
\* an account's primary APT store.
simViewStoreProc(book, account) ==
    IF account \in DOMAIN book THEN ProcJson(StoreGroup(book[account]))
    ELSE ProcJson([Result |-> JsNull])

\* The amounts callers fund with: small numbers, a negative number, the
\* double 2^63, and bigints around u64::MAX.
FundAmounts ==
    {Amount("number", FALSE, "0"), Amount("number", FALSE, "20"),
     Amount("number", TRUE, "100"),
     Amount("number", FALSE, "9223372036854775808"),
     Amount("bigint", FALSE, "18446744073709551605"),
     Amount("bigint", FALSE, "18446744073709551615"),
     Amount("bigint", FALSE, "18446744073709551616")}

\* At most MaxFunds fundAccount calls succeed after creation.
MaxFunds == 3

FundedAccounts == {"default", "alice"}

\* How many fundAccount calls have succeeded since creation.
fundsDone == Len(funded.order)

\* A harness just returned by createLocal(): "default" holds the 100 APT the
\* constructor funded it with.
FundInit ==
    LET c == constructor([mode |-> "simulation", network |-> UNDEF, apiKey |-> UNDEF,
                          networkVersion |-> NoVersion, faucetUrl |-> UNDEF],
                         "0x11", ProcJson([Result |-> "Success"]),
                         ProcJson([Result |-> "Success"]))
    IN  /\ life = "active"
        /\ workingDir = c.workingDir
        /\ poisoned = FALSE
        /\ isLiveMode = c.isLiveMode
        /\ network = c.network
        /\ restUrl = c.restUrl
        /\ faucetUrl = c.faucetUrl
        /\ dirExists = TRUE
        /\ config = c.config
        /\ session = c.session
        /\ cleanups = 0
        /\ last = Called("createLocal", <<>>, c.out)
        /\ ledger = simFund(<<>>, "default", DefaultFunding).ledger
        /\ funded = [sum |-> [a \in {"default"} |-> DefaultFunding], order |-> <<>>]
        /\ fleet = <<>>
        /\ cmd = <<>>
        /\ sdir = <<>>

\* init_cli_profile(name): a fresh profile, which the session has no store for.
Fund_init_cli_profile ==
    \E name \in FundedAccounts, gen \in FreshKeys :
        LET r == init_cli_profile(workingDir, network, restUrl, config, name, UNDEF, gen)
        IN  /\ config' = r.cfg
            /\ last' = Called("init_cli_profile",
                              [profile_name |-> name, privateKey |-> UNDEF], r.out)
            /\ UNCHANGED <<life, harnessFields, poisoned, dirExists, session, cleanups, aside>>

\* fundAccount(account, amount) with the session answering for its ledger.
Fund_fundAccount ==
    /\ fundsDone < MaxFunds
    /\ \E account \in DOMAIN config.profiles, amount \in FundAmounts :
          LET text == amountToString(amount)
              out == fundAccount(workingDir, isLiveMode, network, faucetUrl, account, text,
                                 ProcError, simFundProc(ledger, account, text))
          IN  /\ last' = Called("fundAccount", [account |-> account, amount |-> amount], out)
              /\ ledger' = simFund(ledger, account, text).ledger
              /\ funded' = IF out.threw THEN funded
                           ELSE [sum |-> [a \in (DOMAIN funded.sum) \cup {account} |->
                                            IF a = account
                                            THEN decAdd(balanceOf(funded.sum, account),
                                                        amount.digits)
                                            ELSE funded.sum[a]],
                                 order |-> Append(funded.order, account)]
              /\ UNCHANGED <<life, harnessFields, poisoned, dirExists, config, session, cleanups,
                             fleet, cmd, sdir>>

\* getAPTBalanceFungibleStore(account) with the session answering for its ledger.
Fund_getAPTBalanceFungibleStore ==
    \E account \in DOMAIN config.profiles :
        /\ last' = Called("getAPTBalanceFungibleStore", [account |-> account],
                          getAPTBalanceFungibleStore(workingDir, isLiveMode, restUrl, account,
                                                     ProcError,
                                                     simViewStoreProc(ledger, account),
                                                     QuietHttp))
        /\ UNCHANGED <<life, harnessFields, poisoned, dirExists, config, session, cleanups, aside>>

FundNext ==
    \/ Fund_init_cli_profile
    \/ Fund_fundAccount
    \/ Fund_getAPTBalanceFungibleStore

FundSpec == FundInit /\ [][FundNext]_vars

----------------------------------------------------------------------------
(* Several instances in one process, over one temporary directory.         *)
(*   fleet.tmp : per directory name, what is on disk under it               *)
(*   fleet.of  : per instance, its fields                                   *)
(*   fleet.ran : the latest call: the instance, the operation, whether it   *)
(*               threw, and the commands it spawned with their cwd          *)

Harnesses == {1, 2}

\* The names mkdtempSync(join(tmpdir(), "forklift-")) may come up with; it
\* returns one under which nothing exists at the time of the call.
TempNames == {TmpWorkingDir, "/tmp/forklift-xY9z0Q"}

\* At most MaxOps operations are recorded in one session.
MaxOps == 2

NoDirectory == [exists |-> FALSE, profiles |-> {}, session |-> FALSE, ops |-> 0]
NoHarness == [made |-> FALSE, workingDir |-> "", poisoned |-> FALSE, isLiveMode |-> FALSE]

\* runCommand(APTOS_BINARY, args, { cwd: this.workingDir }): the command
\* words, the session path handed over (UNDEF when none) and the cwd.
runAptosIn(wd, command, sessionPath) ==
    [cwd |-> wd, command |-> <<APTOS_BINARY>> \o command, session |-> sessionPath]

Ran(h, op, threw, spawns) == [by |-> h, op |-> op, threw |-> threw, spawns |-> spawns]

solo == <<life, workingDir, poisoned, isLiveMode, network, restUrl, faucetUrl,
          dirExists, config, session, cleanups, last, ledger, funded, cmd, sdir>>

FleetInit ==
    /\ life = "none"
    /\ workingDir = ""
    /\ poisoned = FALSE
    /\ isLiveMode = FALSE
    /\ network = UNDEF
    /\ restUrl = UNDEF
    /\ faucetUrl = UNDEF
    /\ dirExists = FALSE
    /\ config = NoConfig
    /\ session = FALSE
    /\ cleanups = 0
    /\ last = NoCall
    /\ ledger = <<>>
    /\ funded = <<>>
    /\ cmd = <<>>
    /\ sdir = <<>>
    /\ fleet = [tmp |-> [d \in TempNames |-> NoDirectory],
                of |-> [h \in Harnesses |-> NoHarness],
                ran |-> Ran(0, "none", FALSE, <<>>)]

\* createLocal() or createLive("devnet") returning instance h: a new
\* directory, the profile "default" written under it and, in simulation
\* mode, the session initialised and "default" funded (one recorded
\* operation).  Creations that throw return no instance.
Fleet_create(h) ==
    /\ ~fleet.of[h].made
    /\ \E wd \in TempNames, live \in BOOLEAN :
          /\ ~fleet.tmp[wd].exists
          /\ fleet' = [tmp |-> [fleet.tmp EXCEPT ![wd] =
                                   [exists |-> TRUE, profiles |-> {"default"},
                                    session |-> ~live, ops |-> IF live THEN 0 ELSE 1]],
                       of |-> [fleet.of EXCEPT ![h] =
                                  [made |-> TRUE, workingDir |-> wd, poisoned |-> FALSE,
                                   isLiveMode |-> live]],
                       ran |-> Ran(h, IF live THEN "createLive" ELSE "createLocal", FALSE,
                                   IF live THEN <<>>
                                   ELSE <<runAptosIn(wd, <<"move", "sim", "init">>,
                                                     getSessionPath(wd)),
                                          runAptosIn(wd, <<"move", "sim", "fund">>,
                                                     getSessionPath(wd))>>)]
    /\ UNCHANGED solo

\* h.init_cli_profile(name): the get trap first; then .aptos is made under
\* the working directory if it is missing (with its parents) and the
\* profile is added to the configuration file there.
Fleet_init_cli_profile(h) ==
    /\ fleet.of[h].made
    /\ \E name \in FundedAccounts :
          LET me == fleet.of[h]
              dir == fleet.tmp[me.workingDir]
          IN  IF proxyPoisons(me.poisoned, "init_cli_profile") \/ name \in dir.profiles
              THEN fleet' = [fleet EXCEPT !.ran = Ran(h, "init_cli_profile", TRUE, <<>>)]
              ELSE fleet' = [fleet EXCEPT
                               !.tmp[me.workingDir] =
                                   [dir EXCEPT !.exists = TRUE,
                                               !.profiles = dir.profiles \cup {name}],
                               !.ran = Ran(h, "init_cli_profile", FALSE, <<>>)]
    /\ UNCHANGED solo

\* h.fundAccount(account, amount): the get trap first; in simulation mode
\* one `move sim fund` on the session under the working directory, which
\* the session records if it is there; in live mode the address lookup and
\* the faucet command, which leave the disk alone.
Fleet_fundAccount(h) ==
    /\ fleet.of[h].made
    /\ LET me == fleet.of[h]
           wd == me.workingDir
           dir == fleet.tmp[wd]
       IN  IF proxyPoisons(me.poisoned, "fundAccount")
           THEN fleet' = [fleet EXCEPT !.ran = Ran(h, "fundAccount", TRUE, <<>>)]
           ELSE IF me.isLiveMode
           THEN fleet' = [fleet EXCEPT !.ran =
                            Ran(h, "fundAccount", FALSE,
                                <<runAptosIn(wd, <<"config", "show-profiles">>, UNDEF),
                                  runAptosIn(wd, <<"account", "fund-with-faucet">>, UNDEF)>>)]
           ELSE /\ dir.ops < MaxOps
                /\ fleet' = [fleet EXCEPT
                                !.tmp[wd] = IF dir.exists /\ dir.session
                                            THEN [dir EXCEPT !.ops = @ + 1] ELSE dir,
                                !.ran = Ran(h, "fundAccount", ~(dir.exists /\ dir.session),
                                            <<runAptosIn(wd, <<"move", "sim", "fund">>,
                                                         getSessionPath(wd))>>)]
    /\ UNCHANGED solo

\* h.cleanup(): poisoned is set, then the working directory is removed with
\* everything under it, or the removal fails and is only warned about.
Fleet_cleanup(h) ==
    /\ fleet.of[h].made
    /\ \E removed \in BOOLEAN :
          LET wd == fleet.of[h].workingDir
          IN  fleet' = [fleet EXCEPT
                          !.of[h].poisoned = TRUE,
                          !.tmp[wd] = IF removed THEN NoDirectory ELSE @,
                          !.ran = Ran(h, "cleanup", FALSE, <<>>)]
    /\ UNCHANGED solo

FleetNext ==
    \E h \in Harnesses :
        \/ Fleet_create(h)
        \/ Fleet_init_cli_profile(h)
        \/ Fleet_fundAccount(h)
        \/ Fleet_cleanup(h)

FleetSpec == FleetInit /\ [][FleetNext]_vars

----------------------------------------------------------------------------
(* runCommand on the raw output of the process.                            *)
(*   cmd.result : what spawnSync reports: [error, message, status,         *)
(*                stdout, stderr]                                          *)
(*   cmd.called : runCommand has run                                       *)
(*   cmd.out    : what runCommand did with the report                      *)

\* The whitespace String.prototype.trimEnd removes and JSON.parse skips,
\* among the characters process output is made of here.
IsSpace(c) == c \in {" ", "\t", "\n", "\r"}

\* stdout.split("\n"): acc is the piece being collected.
RECURSIVE splitFrom(_, _)
splitFrom(s, acc) ==
    IF s = "" THEN <<acc>>
    ELSE IF Head(s) = "\n" THEN <<acc>> \o splitFrom(Tail(s), "")
    ELSE splitFrom(Tail(s), acc \o Head(s))

split(s) == splitFrom(s, "")

RECURSIVE trimEnd(_)
trimEnd(s) ==
    IF s # "" /\ IsSpace(SubSeq(s, Len(s), Len(s)))
    THEN trimEnd(SubSeq(s, 1, Len(s) - 1))
    ELSE s

\* A payload search that takes the first line that is "{".
RECURSIVE jsonStartLine_first(_, _)
jsonStartLine_first(lines, i) ==
    LET below == jsonStartLine_first(lines, i - 1)
    IN  IF i < 0 THEN -1
        ELSE IF below # -1 THEN below
        ELSE IF trimEnd(lines[i + 1]) = "{" THEN i
        ELSE -1

\* for (let i = lines.length - 1; i >= 0; i--): the index (from zero) of the
\* line found, -1 when the loop runs out.
RECURSIVE jsonStartLine(_, _)
jsonStartLine(lines, i) ==
    IF i < 0 THEN -1
    ELSE IF trimEnd(lines[i + 1]) = "{" THEN i
    ELSE jsonStartLine(lines, i - 1)

\* lines.slice(start), start counted from zero.
slice(lines, start) == SubSeq(lines, start + 1, Len(lines))

\* lines.join("\n")
RECURSIVE joinLines(_)
joinLines(lines) ==
    IF lines = <<>> THEN ""
    ELSE IF Len(lines) = 1 THEN lines[1]
    ELSE lines[1] \o "\n" \o joinLines(Tail(lines))

\* JSON.parse, on objects, arrays, strings without escapes and unsigned
\* integers.  A parsed value is kept as its text without the insignificant
\* whitespace; rest is what follows the value.
Parsed(rest, out) == [ok |-> TRUE, rest |-> rest, out |-> out]
Unparsed == [ok |-> FALSE, rest |-> "", out |-> ""]

RECURSIVE skipWs(_)
skipWs(s) == IF s # "" /\ IsSpace(Head(s)) THEN skipWs(Tail(s)) ELSE s

\* The characters of a string after its opening quote.
RECURSIVE scanString(_, _)
scanString(s, acc) ==
    IF s = "" THEN Unparsed
    ELSE IF Head(s) = "\"" THEN Parsed(Tail(s), "\"" \o acc \o "\"")
    ELSE IF Head(s) \in {"\n", "\r", "\t", "\\"} THEN Unparsed
    ELSE scanString(Tail(s), acc \o Head(s))

RECURSIVE scanDigits(_, _)
scanDigits(s, acc) ==
    IF s # "" /\ Head(s) \in Digits THEN scanDigits(Tail(s), acc \o Head(s))
    ELSE Parsed(s, acc)

parseNumber(s) ==
    LET r == scanDigits(s, "")
    IN  IF r.out = "" \/ (Len(r.out) > 1 /\ Head(r.out) = "0") THEN Unparsed ELSE r

RECURSIVE parseValue(_)
RECURSIVE parseMembers(_, _)
RECURSIVE parseElements(_, _)

parseValue(s) ==
    IF s = "" THEN Unparsed
    ELSE IF Head(s) = "{"
    THEN LET t == skipWs(Tail(s))
         IN  IF t # "" /\ Head(t) = "}" THEN Parsed(Tail(t), "{}")
             ELSE parseMembers(t, "{")
    ELSE IF Head(s) = "["
    THEN LET t == skipWs(Tail(s))
         IN  IF t # "" /\ Head(t) = "]" THEN Parsed(Tail(t), "[]")
             ELSE parseElements(t, "[")
    ELSE IF Head(s) = "\"" THEN scanString(Tail(s), "")
    ELSE parseNumber(s)

\* s stands at a member of an object, acc is the object so far.
parseMembers(s, acc) ==
    IF s = "" \/ Head(s) # "\"" THEN Unparsed
    ELSE
    LET k == scanString(Tail(s), "")
        c == skipWs(k.rest)
    IN  IF ~k.ok \/ c = "" \/ Head(c) # ":" THEN Unparsed
        ELSE
        LET v == parseValue(skipWs(Tail(c)))
            e == skipWs(v.rest)
            sofar == acc \o k.out \o ":" \o v.out
        IN  IF ~v.ok \/ e = "" THEN Unparsed
            ELSE IF Head(e) = "}" THEN Parsed(Tail(e), sofar \o "}")
            ELSE IF Head(e) = "," THEN parseMembers(skipWs(Tail(e)), sofar \o ",")
            ELSE Unparsed

\* s stands at an element of an array, acc is the array so far.
parseElements(s, acc) ==
    LET v == parseValue(s)
        e == skipWs(v.rest)
        sofar == acc \o v.out
    IN  IF ~v.ok \/ e = "" THEN Unparsed
        ELSE IF Head(e) = "]" THEN Parsed(Tail(e), sofar \o "]")
        ELSE IF Head(e) = "," THEN parseElements(skipWs(Tail(e)), sofar \o ",")
        ELSE Unparsed

\* JSON.parse(text): [ok, value]; not ok is the SyntaxError.
JSONparse(text) ==
    LET v == parseValue(skipWs(text))
    IN  IF v.ok /\ skipWs(v.rest) = "" THEN [ok |-> TRUE, value |-> v.out]
        ELSE [ok |-> FALSE, value |-> ""]

\* result.status: a number, or null when a signal ended the process.
ExitCode(n) == [t |-> "number", v |-> n]
NoExitCode == [t |-> "null", v |-> 0]
statusText(status) == IF status.t = "null" THEN "null" ELSE ToString(status.v)

\* x || "(no output)"
orNoOutput(x) == IF x = "" THEN "(no output)" ELSE x

StartFailure(result) == "Failed to start process: " \o result.message
ExitFailure(result) ==
    "Process exited with code " \o statusText(result.status) \o ".\n\n"
    \o "Stdout:\n" \o orNoOutput(result.stdout) \o "\n"
    \o "Stderr:\n" \o orNoOutput(result.stderr)
ParseFailure(result) ==
    "Failed to parse process output as JSON.\nStdout:\n" \o result.stdout
    \o "\nStderr:\n" \o result.stderr

\* The try block of runCommand: the last line that is "{", and the parse of
\* the output from there on.
parseOutput(result) ==
    LET lines == split(result.stdout)
        start == jsonStartLine(lines, Len(lines) - 1)
        parsed == JSONparse(joinLines(slice(lines, start)))
    IN  IF start = -1 \/ ~parsed.ok
        THEN Throw(ParseFailure(result), <<>>)
        ELSE Ok(parsed.value, <<>>)

\* A runCommand that parses the output whatever the exit status.
runCommandOn_parsesFirst(result) ==
    IF result.error THEN Throw(StartFailure(result), <<>>)
    ELSE IF ~parseOutput(result).threw THEN parseOutput(result)
    ELSE IF ~(result.status.t = "number" /\ result.status.v = 0)
    THEN Throw(ExitFailure(result), <<>>)
    ELSE parseOutput(result)

\* A runCommand that answers an empty object for output it cannot parse.
runCommandOn_defaultsToEmpty(result) ==
    IF result.error THEN Throw(StartFailure(result), <<>>)
    ELSE IF ~(result.status.t = "number" /\ result.status.v = 0)
    THEN Throw(ExitFailure(result), <<>>)
    ELSE IF parseOutput(result).threw THEN Ok("{}", <<>>)
    ELSE parseOutput(result)

\* runCommand, given what spawnSync reported.
runCommandOn(result) ==
    IF result.error THEN Throw(StartFailure(result), <<>>)
    ELSE IF ~(result.status.t = "number" /\ result.status.v = 0)
    THEN Throw(ExitFailure(result), <<>>)
    ELSE parseOutput(result)

\* At most MaxLines lines of output.
MaxLines == 4

\* The lines a process prints: the opening of a payload, bare, with trailing
\* and with leading whitespace; its closing; a member; prose with braces; an
\* empty line.
StdoutLines == {"{", "{ \r", "  {", "}", "\"Result\": [7]", "Compiling {pkg}", ""}

Stdouts == UNION {{joinLines(ls) : ls \in [1..n -> StdoutLines]} : n \in 1..MaxLines}

SpawnResults ==
    {[error |-> TRUE, message |-> "spawnSync aptos ENOENT", status |-> NoExitCode,
      stdout |-> "", stderr |-> ""]}
    \cup {[error |-> FALSE, message |-> "", status |-> st, stdout |-> o, stderr |-> e] :
             st \in {ExitCode(0), ExitCode(1), NoExitCode}, o \in Stdouts,
             e \in {"", "warning: unused"}}

others == <<life, workingDir, poisoned, isLiveMode, network, restUrl, faucetUrl,
            dirExists, config, session, cleanups, last, ledger, funded, fleet, sdir>>

CmdInit ==
    /\ life = "none"
    /\ workingDir = ""
    /\ poisoned = FALSE
    /\ isLiveMode = FALSE
    /\ network = UNDEF
    /\ restUrl = UNDEF
    /\ faucetUrl = UNDEF
    /\ dirExists = FALSE
    /\ config = NoConfig
    /\ session = FALSE
    /\ cleanups = 0
    /\ last = NoCall
    /\ ledger = <<>>
    /\ funded = <<>>
    /\ fleet = <<>>
    /\ sdir = <<>>
    /\ cmd \in {[called |-> FALSE, result |-> result, out |-> Ok(UNDEF, <<>>)] :
                   result \in SpawnResults}

Cmd_runCommand ==
    /\ ~cmd.called
    /\ cmd' = [cmd EXCEPT !.called = TRUE, !.out = runCommandOn(cmd.result)]
    /\ UNCHANGED others

CmdNext == Cmd_runCommand

CmdSpec == CmdInit /\ [][CmdNext]_vars

-----------------------------------------------------------------------------
(* The session directory over the operations of one simulation harness.    *)
(* The engine numbers what it did: entry "[i] ..." for its i-th operation, *)
(* counting from 0, and config.json holds the number of operations so far. *)
(*   sdir.ops   : the counter in config.json                               *)
(*   sdir.kinds : per entry, in order, what the operation was              *)

MaxSessionOps == 11

EntryName(i, kind) ==
    "[" \o ToString(i) \o "] "
        \o (CASE kind = "fund" -> "fund (default)"
              [] kind = "execute" -> "execute 0x1::aptos_account::transfer"
              [] kind = "view" -> "view 0x1::account::get_sequence_number")

\* What the operation numbered i emitted.
EntryEvent(i, kind) ==
    [V2 |-> [type_tag |-> IF kind = "fund" THEN "0x1::fungible_asset::Deposit"
                          ELSE "0x1::transaction_fee::FeeStatement",
             event_data |-> [operation |-> ToString(i)]]]

\* events.json of an entry; a view leaves none.
EntryLog(i, kind) ==
    IF kind = "view" THEN [EventLog(<<>>) EXCEPT !.exists = FALSE]
    ELSE EventLog(<<EntryEvent(i, kind)>>)

DiskOf(d) ==
    [sessionExists |-> TRUE, configExists |-> TRUE, configParses |-> TRUE,
     hasOps |-> TRUE, ops |-> d.ops,
     files |-> [i \in 1..Len(d.kinds) |-> EntryName(i - 1, d.kinds[i])] \o <<"config.json">>,
     logs |-> [f \in {EntryName(i - 1, d.kinds[i]) : i \in 1..Len(d.kinds)} |->
                 LET i == CHOOSE j \in 1..Len(d.kinds) : EntryName(j - 1, d.kinds[j]) = f
                 IN  EntryLog(i - 1, d.kinds[i])]]

Recorded(d, kind) == [ops |-> d.ops + 1, kinds |-> Append(d.kinds, kind)]

quiet == <<life, harnessFields, poisoned, dirExists, config, session, cleanups,
           ledger, funded, fleet, cmd>>

\* A simulation harness as createLocal returns it: the default funding is
\* the session's operation 0.
SessInit ==
    LET c == constructor([mode |-> "simulation", network |-> UNDEF, apiKey |-> UNDEF,
                          networkVersion |-> NoVersion, faucetUrl |-> UNDEF],
                         "0x11", ProcJson([Result |-> "Success"]),
                         ProcJson([Result |-> "Success"]))
    IN  /\ life = "active"
        /\ workingDir = c.workingDir
        /\ poisoned = FALSE
        /\ isLiveMode = c.isLiveMode
        /\ network = c.network
        /\ restUrl = c.restUrl
        /\ faucetUrl = c.faucetUrl
        /\ dirExists = TRUE
        /\ config = c.config
        /\ session = c.session
        /\ cleanups = 0
        /\ last = Called("createLocal", <<>>, c.out)
        /\ ledger = <<>>
        /\ funded = <<>>
        /\ fleet = <<>>
        /\ cmd = <<>>
        /\ sdir = Recorded([ops |-> 0, kinds |-> <<>>], "fund")

Sess_fundAccount ==
    /\ sdir.ops < MaxSessionOps
    /\ sdir' = Recorded(sdir, "fund")
    /\ last' = Called("fundAccount", [account |-> "default", amount |-> "100"],
                      fundAccount(workingDir, isLiveMode, network, faucetUrl, "default", "100",
                                  ProcError, ProcJson([Result |-> "Success"])))
    /\ UNCHANGED quiet

Sess_runViewFunction ==
    /\ sdir.ops < MaxSessionOps
    /\ sdir' = Recorded(sdir, "view")
    /\ last' = Called("runViewFunction", ViewOptions,
                      runViewFunction(workingDir, isLiveMode, ViewOptions,
                                      ProcJson([Result |-> <<"0">>])))
    /\ UNCHANGED quiet

\* A transaction the engine executed is its latest entry when the command
\* returns; a command that exits with an error records nothing.
Sess_runMoveFunction ==
    /\ sdir.ops < MaxSessionOps
    /\ \E proc \in {ProcExit(1), ProcJson(TxSuccess)} :
          LET after == IF Failed(proc) THEN sdir ELSE Recorded(sdir, "execute")
              world == [QuietWorld EXCEPT !.disk = DiskOf(after)]
          IN  /\ sdir' = after
              /\ last' = Called("runMoveFunction", TxOptions(TRUE),
                                runMoveFunction(workingDir, isLiveMode, restUrl,
                                                TxOptions(TRUE), proc, world))
    /\ UNCHANGED quiet

SessNext ==
    \/ Sess_fundAccount
    \/ Sess_runViewFunction
    \/ Sess_runMoveFunction

SessSpec == SessInit /\ [][SessNext]_vars

----------------------------------------------------------------------------
(* Properties.                                                             *)

\* What is on disk under the working directory.
disk == <<dirExists, config, session>>

IsKind(e, kind) == e.kind = kind
HasKind(eff, kind) == \E i \in 1..Len(eff) : IsKind(eff[i], kind)
FactoryOps == {"createLocal", "createNetworkFork", "createLive"}

\* C1: once cleanup has run (poisoned is set), a call of any method other
\* than cleanup throws the poisoned error, having spawned nothing, fetched
\* nothing and touched no file, and leaves the disk as it was.
C1_PoisonedCallsThrowFirst ==
    [][poisoned /\ last'.op # "cleanup"
         => /\ last'.threw
            /\ last'.error = PoisonedError
            /\ last'.eff = <<>>
            /\ disk' = disk]_vars

\* A balance query, which would otherwise fetch or spawn, made after cleanup.
C1_Witness ==
    /\ poisoned
    /\ last.op = "getAPTBalanceFungibleStore"
    /\ last.threw
    /\ last.error = PoisonedError

C3_CleanupNeverThrows ==
    last.op = "cleanup"
        => /\ ~last.threw
           /\ poisoned
           /\ dirExists => HasKind(last.eff, "warn")

\* A cleanup whose removal failed: a warning, no error, the harness poisoned.
C3_Witness ==
    /\ last.op = "cleanup"
    /\ dirExists
    /\ HasKind(last.eff, "warn")
    /\ ~last.threw
    /\ poisoned

\* A private key argument that is well formed, or left out.
ValidOrOmitted(privateKey) == privateKey \in PrivateKeys \/ ~Truthy(privateKey)

\* The profiles stored in the configuration file by name.
Stored == DOMAIN config.profiles

\* C4 as stated: on a harness in use, init_cli_profile with a name the
\* configuration file already holds fails with the 'already exists' error
\* and leaves the configuration file as it was.
C4_DuplicateAlwaysAlreadyExists ==
    [][~poisoned /\ last'.op = "init_cli_profile" /\ last'.arg.profile_name \in Stored
         => /\ last'.threw
            /\ last'.error = DuplicateProfileError(last'.arg.profile_name, configPath(workingDir))
            /\ config' = config]_vars

\* C4 amended: init_cli_profile with a name the configuration file already
\* holds fails and leaves the configuration file as it was; the failure is
\* the 'already exists' error when the private key is well formed or left
\* out (a malformed key is rejected first, with the key's own error).
C4_DuplicateFailsConfigUnchanged ==
    [][~poisoned /\ last'.op = "init_cli_profile" /\ last'.arg.profile_name \in Stored
         => /\ last'.threw
            /\ config' = config
            /\ ValidOrOmitted(last'.arg.privateKey)
                  => last'.error = DuplicateProfileError(last'.arg.profile_name,
                                                         configPath(workingDir))]_vars

\* "alice" initialised a second time, with another well-formed key.
C4_Witness ==
    /\ ~poisoned
    /\ last.op = "init_cli_profile"
    /\ last.arg.profile_name = "alice"
    /\ last.arg.privateKey = "0x22"
    /\ last.error = DuplicateProfileError("alice", configPath(workingDir))
    /\ "alice" \in Stored
    /\ config.profiles["alice"].account = accountAddressOf("0x11")

\* C5: init_cli_profile with a name the configuration file does not hold and
\* a well-formed or omitted key succeeds, adds exactly that profile and keeps
\* the others; and no operation but cleanup removes or rewrites a profile.
C5_AnyAbsentNameSucceeds ==
    [][/\ ~poisoned /\ last'.op = "init_cli_profile"
          /\ last'.arg.profile_name \notin Stored
          /\ ValidOrOmitted(last'.arg.privateKey)
            => /\ ~last'.threw
               /\ DOMAIN config'.profiles = Stored \cup {last'.arg.profile_name}
       /\ last'.op # "cleanup"
            => \A n \in Stored :
                  n \in DOMAIN config'.profiles /\ config'.profiles[n] = config.profiles[n]]_vars

SimulationFactoryOps == {"createLocal", "createNetworkFork"}

\* The first external command of a call is `aptos move sim init`.
StartsSessionInit(eff) ==
    /\ HasKind(eff, "spawn")
    /\ LET i == CHOOSE j \in 1..Len(eff) :
                  IsKind(eff[j], "spawn") /\ \A k \in 1..(j - 1) : ~IsKind(eff[k], "spawn")
       IN  SubSeq(eff[i].args, 1, 4) = <<APTOS_BINARY, "move", "sim", "init">>

\* A simulation-mode creation that failed the pairing check, nothing spawned.
FailsPairing(call) ==
    /\ call.threw
    /\ call.error = BothOrNeitherError
    /\ ~HasKind(call.eff, "spawn")

\* C6 as stated: a simulation-mode creation given exactly one of network and
\* apiKey fails with the both-or-neither error before any command is run;
\* given neither or both it runs the session-initialisation command.
C6_PairingDecidesValidation ==
    last.op \in SimulationFactoryOps
        => IF Truthy(last.arg.network) # Truthy(last.arg.apiKey)
           THEN FailsPairing(last)
           ELSE StartsSessionInit(last.eff)

\* C6 amended: a simulation-mode creation given exactly one of network and
\* apiKey fails with the both-or-neither error before any command is run;
\* given both, or given neither and no networkVersion, it runs the
\* session-initialisation command.
C6_PairingThenSessionInit ==
    last.op \in SimulationFactoryOps
        => /\ Truthy(last.arg.network) # Truthy(last.arg.apiKey) => FailsPairing(last)
           /\ Truthy(last.arg.network) /\ Truthy(last.arg.apiKey)
                 => StartsSessionInit(last.eff)
           /\ (/\ ~Truthy(last.arg.network)
               /\ ~Truthy(last.arg.apiKey)
               /\ last.arg.networkVersion = NoVersion)
                 => StartsSessionInit(last.eff)

\* A fork asked for with a network and no API key.
C6_Witness ==
    /\ last.op = "createNetworkFork"
    /\ last.arg.network = "mainnet"
    /\ ~Truthy(last.arg.apiKey)
    /\ FailsPairing(last)

\* C7: a simulation-mode creation given a networkVersion (whatever its
\* value, 0 included) and neither network nor apiKey fails with the
\* version-without-network error before any command is run.
C7_AnyVersionNeedsNetwork ==
    (/\ last.op \in SimulationFactoryOps
     /\ last.arg.networkVersion.t \in {"number", "bigint", "string"}
     /\ ~Truthy(last.arg.network)
     /\ ~Truthy(last.arg.apiKey))
        => /\ last.threw
           /\ last.error = VersionWithoutNetworkError
           /\ ~HasKind(last.eff, "spawn")

Spawns(eff) == {i \in 1..Len(eff) : IsKind(eff[i], "spawn")}

\* The funding command the constructor runs for "default".
DefaultFundingCommand ==
    SpawnOf(<<"move", "sim", "fund", "--session", getSessionPath(workingDir),
              "--account", "default", "--amount", "10000000000">>)

\* C8: after a successful factory call the configuration file holds the
\* profile "default"; a simulation-mode creation has written the profile,
\* then run `move sim init`, then funded "default" with 10000000000, and run
\* nothing else; a live-mode creation has run no command, made no request
\* and created no session.
C8_CreationSteps ==
    last.op \in FactoryOps /\ ~last.threw
        => /\ "default" \in Stored
           /\ ~isLiveMode
                => \E w, i, f \in 1..Len(last.eff) :
                      /\ w < i /\ i < f
                      /\ last.eff[w] = Fs("writeFileSync", configPath(workingDir))
                      /\ Spawns(last.eff) = {i, f}
                      /\ SubSeq(last.eff[i].args, 1, 4) = <<APTOS_BINARY, "move", "sim", "init">>
                      /\ last.eff[f] = DefaultFundingCommand
           /\ isLiveMode
                => /\ ~HasKind(last.eff, "spawn")
                   /\ ~HasKind(last.eff, "fetch")
                   /\ ~session

\* A fork of mainnet created with an API key and a version.
C8_Witness ==
    /\ last.op = "createNetworkFork"
    /\ ~last.threw
    /\ last.arg.network = "mainnet"
    /\ last.arg.networkVersion.v = "123"
    /\ session
    /\ "default" \in Stored

FaucetCommand(address, amount) ==
    SpawnOf(<<"account", "fund-with-faucet", "--account", address,
              "--faucet-url", faucetUrl, "--amount", amount>>)

LiveFunding == ~poisoned /\ isLiveMode /\ Truthy(faucetUrl) /\ last.op = "fundAccount"

\* C10 as stated: in live mode with a faucet endpoint, fundAccount looks the
\* account up only when it is a profile name; an account written as a 0x
\* address goes to the faucet command as it is, with the faucet endpoint and
\* the amount.
C10_RawAddressUsedAsIs ==
    LiveFunding
        => IF StartsWith(last.arg.account, "0x")
           THEN /\ last.eff # <<>>
                /\ last.eff[1] = FaucetCommand(last.arg.account, last.arg.amount)
           ELSE /\ last.eff # <<>>
                /\ last.eff[1] = SpawnOf(<<"config", "show-profiles">>)
                /\ Len(last.eff) > 1
                      => last.eff[2] = FaucetCommand(config.profiles[last.arg.account].account,
                                                     last.arg.amount)

\* C10 amended: in live mode with a faucet endpoint, fundAccount first looks
\* the account up as a profile name; when the lookup fails (a 0x address that
\* names no profile included) it throws and the faucet is not invoked;
\* otherwise it invokes the faucet command with the profile's 0x-prefixed
\* address, the faucet endpoint and the amount, and nothing else.
C10_FaucetAfterProfileLookup ==
    LiveFunding
        => /\ Len(last.eff) \in {1, 2}
           /\ last.eff[1] = SpawnOf(<<"config", "show-profiles">>)
           /\ last.arg.account \notin Stored => last.threw /\ Len(last.eff) = 1
           /\ Len(last.eff) = 1 => last.threw
           /\ Len(last.eff) = 2
                => /\ last.arg.account \in Stored
                   /\ last.eff[2] = FaucetCommand(config.profiles[last.arg.account].account,
                                                  last.arg.amount)

\* "default" funded through the faucet of a custom node.
C10_Witness ==
    /\ LiveFunding
    /\ network = "Custom"
    /\ last.arg.account = "default"
    /\ ~last.threw
    /\ Len(last.eff) = 2

\* The amount of a fundAccount call is a u64.
InU64(amount) == ~amount.negative /\ decLeq(amount.digits, U64Max)

\* C11: in simulation mode a balance read returns the sum of the amounts of
\* the fundAccount calls that succeeded (0 for a fresh profile); a call
\* succeeds exactly when its amount is within [0, 2^64-1] and the sum stays
\* at most 2^64-1; a call that throws leaves the balance as it was.
C11_FundingAdditiveExact ==
    [][/\ last'.op = "getAPTBalanceFungibleStore" /\ ~last'.threw
            => last'.ret = balanceOf(funded'.sum, last'.arg.account)
       /\ last'.op = "fundAccount"
            => /\ ~last'.threw
                    <=> /\ InU64(last'.arg.amount)
                        /\ decLeq(decAdd(balanceOf(funded.sum, last'.arg.account),
                                          last'.arg.amount.digits), U64Max)
               /\ last'.threw => ledger' = ledger]_vars

\* The latest call went through to the method and kept the answers it got.
Heard(op) == last.op = op /\ "heard" \in DOMAIN last

\* C12: viewResource of a resource the backend reports absent returns
\* {Result: null} and does not throw, in simulation mode (the session
\* answers Result: null) as in live mode (the node answers 404); in live
\* mode any other non-success status throws, and a successful response is
\* returned as {Result: <data>}.
C12_AbsentResourceIsNull ==
    Heard("viewResource")
        => IF ~isLiveMode
           THEN last.heard.proc = ProcJson([Result |-> JsNull])
                    => ~last.threw /\ last.ret = [Result |-> JsNull]
           ELSE ~resolveAddress(last.arg.account, last.heard.procLookup).threw
                /\ ~last.heard.http.neterr
                    => LET http == last.heard.http
                       IN  /\ http.status = 404
                                => ~last.threw /\ last.ret = [Result |-> JsNull]
                           /\ ~responseOk(http) /\ http.status # 404
                                => /\ last.threw
                                   /\ last.error = "Failed to fetch resource: 500 Internal Server Error"
                           /\ responseOk(http) /\ http.parses /\ "data" \in DOMAIN http.body
                                => ~last.threw /\ last.ret = [Result |-> http.body.data]

\* A raw address with no such resource on a live network.
C12_Witness ==
    /\ Heard("viewResource")
    /\ isLiveMode
    /\ last.arg.account = "0xacc11"
    /\ last.heard.http.status = 404
    /\ ~last.threw
    /\ IsNull(last.ret.Result)

TxOps == {"runMoveFunction", "runMoveScript", "publishPackage", "deployCodeObject",
          "upgradeCodeObject"}

\* The latest call is a transaction-executing operation that reached its method.
TxHeard == last.op \in TxOps /\ "heard" \in DOMAIN last

\* The engine exited with code zero and printed a transaction result.
Reported(proc, success) ==
    /\ ~proc.error /\ proc.status = 0 /\ proc.parsed
    /\ "Result" \in DOMAIN proc.json
    /\ "success" \in DOMAIN proc.json.Result
    /\ proc.json.Result.success = success

HasEventsField(res) == "Result" \in DOMAIN res /\ "events" \in DOMAIN res.Result

\* C13: when the engine exits with code zero and reports success = false, a
\* transaction-executing operation returns that result and does not throw.
C13_FailedTransactionIsReturned ==
    TxHeard /\ Reported(last.heard.proc, FALSE)
        => /\ ~last.threw
           /\ last.ret = last.heard.proc.json
           /\ last.ret.Result.success = FALSE

\* A script that compiled and then aborted.
C13_Witness ==
    /\ TxHeard
    /\ last.op = "runMoveScript"
    /\ Reported(last.heard.proc, FALSE)
    /\ ~last.threw
    /\ last.ret.Result.vm_status = "Move abort"

\* An effect that looks events up: a request, or a read under the session path.
IsEventLookup(e) ==
    \/ IsKind(e, "fetch")
    \/ IsKind(e, "fs") /\ StartsWith(e.args[2], getSessionPath(workingDir))

HasEventLookup(eff) == \E i \in 1..Len(eff) : IsEventLookup(eff[i])

\* C14: a transaction result carries an events field only when includeEvents
\* was requested and the result reports success; when includeEvents is false
\* or left out, or the result reports success = false, no events field is
\* added and nothing is looked up (no request, no read under the session).
C14_EventsOnlyWhenAskedAndSucceeded ==
    TxHeard
        => /\ ~last.threw /\ HasEventsField(last.ret)
                => wantsEvents(last.arg) /\ Reported(last.heard.proc, TRUE)
           /\ ~(wantsEvents(last.arg) /\ Reported(last.heard.proc, TRUE))
                => /\ ~HasEventLookup(last.eff)
                   /\ ~last.threw => ~HasEventsField(last.ret)

\* A successful transaction run without includeEvents: no events, no lookup.
C14_Witness ==
    /\ TxHeard
    /\ "includeEvents" \notin DOMAIN last.arg
    /\ Reported(last.heard.proc, TRUE)
    /\ ~last.threw
    /\ ~HasEventsField(last.ret)
    /\ ~HasEventLookup(last.eff)

\* The event lookup of the latest call could not produce events.
LookupFails(world) ==
    IF isLiveMode
    THEN world.http.neterr \/ ~responseOk(world.http) \/ ~world.http.parses
    ELSE \/ ~world.disk.sessionExists
         \/ ~world.disk.configExists
         \/ ~world.disk.configParses
         \/ \E f \in DOMAIN world.disk.logs :
               ~world.disk.logs[f].exists \/ ~world.disk.logs[f].parses

\* C15: when includeEvents is requested and the transaction succeeded, the
\* operation does not throw, and when the events cannot be fetched or parsed
\* the result is returned without an events field.
C15_EventFailureNeverThrows ==
    TxHeard /\ wantsEvents(last.arg) /\ Reported(last.heard.proc, TRUE)
        => /\ ~last.threw
           /\ LookupFails(last.heard.world) => ~HasEventsField(last.ret)

\* The events.json the simulation lookup of the latest call resolves to.
OnDiskLog(found) ==
    LET hits == SelectSeq(found.files, LAMBDA f : StartsWith(f, "[" \o ToString(found.ops - 1) \o "]"))
    IN  found.logs[hits[1]].items

\* C16: every element of the events attached in simulation mode that comes
\* from a simulation-native record (V2) has exactly the fields type and data,
\* type being the record's type tag and data its payload, and the attached
\* sequence has the length and the order of the log on disk.
C16_SimulationEventsHaveRestShape ==
    TxHeard /\ ~isLiveMode /\ ~last.threw /\ HasEventsField(last.ret)
        => LET events == last.ret.Result.events
               log == OnDiskLog(last.heard.world.disk)
           IN  /\ Len(events) = Len(log)
               /\ \A i \in 1..Len(log) :
                     "V2" \in DOMAIN log[i]
                         => /\ DOMAIN events[i] = {"type", "data"}
                            /\ events[i].type = log[i].V2.type_tag
                            /\ events[i].data = log[i].V2.event_data

\* Two different simulation-native records attached in their order on disk.
C16_Witness ==
    /\ TxHeard /\ ~isLiveMode /\ ~last.threw /\ HasEventsField(last.ret)
    /\ Len(last.ret.Result.events) = 3
    /\ last.ret.Result.events[1].type = "0x1::transaction_fee::FeeStatement"
    /\ last.ret.Result.events[2] = [type |-> "0xcafe::message::MessageChange",
                                     data |-> [to_message |-> "hello"]]

\* returned is the backend's address with the 0x prefix, added only if missing.
Prefixed(returned, backend) ==
    /\ StartsWith(returned, "0x")
    /\ Strip0x(returned) = Strip0x(backend)
    /\ StartsWith(backend, "0x") => returned = backend
    /\ normalizeAddress(returned) = returned

\* C17: the address getAccountAddress returns and the deployed_object_address
\* of a deployCodeObject result start with 0x whether or not the backend
\* printed the prefix, and an address that has the prefix is left unchanged.
C17_ReturnedAddressesPrefixed ==
    /\ Heard("getAccountAddress") /\ ~last.threw
          => Prefixed(last.ret, last.heard.proc.json.Result[last.arg.profile].account)
    /\ (/\ Heard("deployCodeObject") /\ ~last.threw
        /\ "deployed_object_address" \in DOMAIN last.ret.Result)
          => Prefixed(last.ret.Result.deployed_object_address,
                      last.heard.proc.json.Result.deployed_object_address)

\* A deployment whose backend printed the object address without the prefix.
C17_Witness ==
    /\ Heard("deployCodeObject") /\ ~last.threw
    /\ last.heard.proc.json.Result.success
    /\ last.heard.proc.json.Result.deployed_object_address = "obj"
    /\ last.ret.Result.deployed_object_address = "0xobj"

LiveGroupError ==
    "viewResourceGroup is not supported in live mode. Use viewResource() to query individual resources within a group directly."

\* The command a group view of the latest call's arguments is to run.
GroupQuery(arg) ==
    <<APTOS_BINARY, "move", "sim", "view-resource-group",
      "--session", join(workingDir, "data"),
      "--account", arg.account, "--resource-group", arg.resourceGroup>>
    \o (IF arg.derivedObjectAddress = UNDEF THEN <<>>
        ELSE <<"--derived-object-address", arg.derivedObjectAddress>>)

KnownNetworks ==
    {<<"mainnet", "Mainnet", "https://fullnode.mainnet.aptoslabs.com">>,
     <<"testnet", "Testnet", "https://fullnode.testnet.aptoslabs.com">>,
     <<"devnet", "Devnet", "https://fullnode.devnet.aptoslabs.com">>,
     <<"local", "Local", "http://127.0.0.1:8080">>}

\* What a live-mode creation with these options is to record.
RecordsLabel(options) ==
    LET net == toLowerCase(options.network)
    IN  /\ \A k \in KnownNetworks :
              net = k[1] => network = k[2] /\ restUrl = k[3]
        /\ net \in {"mainnet", "testnet"} => faucetUrl = NULL
        /\ net \notin {k[1] : k \in KnownNetworks}
              => /\ network = "Custom"
                 /\ restUrl = options.network
                 /\ faucetUrl = IF options.faucetUrl = UNDEF THEN NULL
                                 ELSE options.faucetUrl

InUse(h) == fleet.of[h].made /\ ~fleet.of[h].poisoned

\* What instance h keeps on disk: its profile store and its session.
Kept(h) == fleet.tmp[fleet.of[h].workingDir]

Inside(path, dir) == StartsWith(path, dir \o "/")

\* C20: two instances in use have different working directories; the
\* session path and the configuration file of an instance lie inside its
\* working directory; every command an operation spawns runs with the
\* working directory of the instance it was called on as cwd; and an
\* operation on one instance, cleanup included, leaves the profile store,
\* the session and the released flag of every other instance in use as
\* they were.
C20_InstancesIsolated ==
    [][/\ \A h, k \in Harnesses :
             h # k /\ InUse(h)' /\ InUse(k)'
                 => fleet'.of[h].workingDir # fleet'.of[k].workingDir
       /\ \A h \in Harnesses :
             fleet'.of[h].made
                 => /\ Inside(getSessionPath(fleet'.of[h].workingDir), fleet'.of[h].workingDir)
                    /\ Inside(configPath(fleet'.of[h].workingDir), fleet'.of[h].workingDir)
       /\ \A i \in 1..Len(fleet'.ran.spawns) :
             fleet'.ran.spawns[i].cwd = fleet'.of[fleet'.ran.by].workingDir
       /\ \A k \in Harnesses :
             k # fleet'.ran.by /\ InUse(k)
                 => /\ Kept(k)' = Kept(k)
                    /\ fleet'.of[k] = fleet.of[k]]_vars

\* The process of the latest runCommand call started and exited with code 0.
ExitedZero == cmd.called /\ ~cmd.result.error /\ cmd.result.status = ExitCode(0)

\* The lines of stdout, counted from one, that are "{" once trailing
\* whitespace is removed.
BraceLines ==
    LET lines == split(cmd.result.stdout)
    IN  {i \in 1..Len(lines) : trimEnd(lines[i]) = "{"}

LastBraceLine == CHOOSE i \in BraceLines : \A j \in BraceLines : j <= i

\* stdout from the last such line to its end.
PayloadText ==
    LET lines == split(cmd.result.stdout)
    IN  joinLines(SubSeq(lines, LastBraceLine, Len(lines)))

\* C21: when the process exits with code zero and the text from the last
\* line of stdout that is "{" after removal of trailing whitespace to the
\* end of stdout is well-formed, runCommand returns the parse of exactly
\* that text: what it returns is what it returns for that text alone,
\* whatever the earlier lines are, and the line it starts from begins with
\* "{" itself.
C21_PayloadIsLastBraceSuffix ==
    ExitedZero /\ BraceLines # {} /\ JSONparse(PayloadText).ok
        => /\ ~cmd.out.threw
           /\ cmd.out.ret = JSONparse(PayloadText).value
           /\ cmd.out = runCommandOn([cmd.result EXCEPT !.stdout = PayloadText])
           /\ Head(PayloadText) = "{"

\* Prose with braces and an earlier "{" line before the payload.
C21_Witness ==
    /\ ExitedZero
    /\ cmd.result.stdout = "Compiling {pkg}\n{\n{ \r\n}"
    /\ ~cmd.out.threw
    /\ cmd.out.ret = "{}"

\* C22: when the process exits with code zero and stdout has no line that is
\* "{" after removal of trailing whitespace, or the text from the last such
\* line on is not well-formed JSON, runCommand throws "Failed to parse
\* process output as JSON" with the whole of stdout and stderr in the
\* message, and returns nothing.
C22_UnparseableOutputThrows ==
    ExitedZero /\ (BraceLines = {} \/ ~JSONparse(PayloadText).ok)
        => /\ cmd.out.threw
           /\ cmd.out.ret = UNDEF
           /\ cmd.out.error = "Failed to parse process output as JSON.\nStdout:\n"
                                 \o cmd.result.stdout \o "\nStderr:\n" \o cmd.result.stderr

\* A payload whose opening line has leading whitespace.
C22_Witness ==
    /\ ExitedZero
    /\ cmd.result.stdout = "  {\n\"Result\": [7]\n}"
    /\ cmd.result.stderr = "warning: unused"
    /\ cmd.out.threw

\* C23: runCommand throws "Failed to start process" when the process could
\* not be started; otherwise, when the exit status is not zero, it throws
\* the exit failure with the exit code, stdout and stderr (each as printed,
\* "(no output)" standing for an empty one), whatever stdout holds; it
\* returns only when the exit status is zero.
C23_StartThenExitThenParse ==
    cmd.called
        => /\ cmd.result.error
                => /\ cmd.out.threw
                   /\ StartsWith(cmd.out.error, "Failed to start process")
           /\ ~cmd.result.error /\ cmd.result.status # ExitCode(0)
                => /\ cmd.out.threw
                   /\ cmd.out.error =
                        "Process exited with code "
                        \o (IF cmd.result.status = NoExitCode THEN "null"
                            ELSE ToString(cmd.result.status.v))
                        \o ".\n\nStdout:\n"
                        \o (IF cmd.result.stdout = "" THEN "(no output)"
                            ELSE cmd.result.stdout)
                        \o "\nStderr:\n"
                        \o (IF cmd.result.stderr = "" THEN "(no output)"
                            ELSE cmd.result.stderr)
           /\ ~cmd.out.threw => ExitedZero

\* A well-formed payload printed by a process that exited with code 1.
C23_Witness ==
    /\ cmd.called /\ ~cmd.result.error
    /\ cmd.result.status = ExitCode(1)
    /\ cmd.result.stdout = "{\n\"Result\": [7]\n}"
    /\ cmd.out.threw
    /\ StartsWith(cmd.out.error, "Process exited with code 1.")

\* The commands that execute a transaction.
EngineCommands ==
    {<<"move", "run">>, <<"move", "run-script">>, <<"move", "publish">>,
     <<"move", "deploy-object">>, <<"move", "upgrade-object">>}

IsEngineCommand(e) ==
    IsKind(e, "spawn") /\ Len(e.args) >= 3 /\ SubSeq(e.args, 2, 3) \in EngineCommands

HasArg(args, flag) == \E j \in 1..Len(args) : args[j] = flag
HasArgValue(args, flag, value) ==
    \E j \in 1..(Len(args) - 1) : args[j] = flag /\ args[j + 1] = value

NoRawFlags(options) ==
    options.extraFlags = <<>> /\ options.compileExtraFlags = <<>> /\ options.runExtraFlags = <<>>

\* C24: the command by which a transaction-executing operation called
\* without raw extra flags executes its transaction carries, on a
\* simulation-mode instance, --session followed by the instance's session
\* path, and on a live-mode instance --assume-yes and no --session.
C24_SessionOrAssumeYes ==
    TxHeard /\ NoRawFlags(last.arg)
        => \A i \in 1..Len(last.eff) :
              IsEngineCommand(last.eff[i])
                  => IF isLiveMode
                     THEN /\ HasArg(last.eff[i].args, "--assume-yes")
                          /\ ~HasArg(last.eff[i].args, "--session")
                     ELSE HasArgValue(last.eff[i].args, "--session",
                                      join(workingDir, "data"))

\* A package published from a live-mode instance.
C24_Witness ==
    /\ TxHeard /\ isLiveMode /\ last.op = "publishPackage"
    /\ \E i \in 1..Len(last.eff) :
          /\ IsEngineCommand(last.eff[i])
          /\ HasArg(last.eff[i].args, "--assume-yes")

IsCommand(e, words) ==
    IsKind(e, "spawn") /\ Len(e.args) >= 3 /\ SubSeq(e.args, 2, 3) = words

\* Where in the effects of the latest call the commands are.
CompileRuns == {i \in 1..Len(last.eff) : IsCommand(last.eff[i], <<"move", "compile">>)}
ScriptRuns == {i \in 1..Len(last.eff) : IsCommand(last.eff[i], <<"move", "run-script">>)}
ManifestReads ==
    {i \in 1..Len(last.eff) :
        IsKind(last.eff[i], "fs")
        /\ last.eff[i].args = <<"readFileSync", last.arg.packageDir \o "/Move.toml">>}

CompileSucceeded ==
    /\ ~last.heard.procCompile.error
    /\ last.heard.procCompile.status = 0
    /\ last.heard.procCompile.parsed

ManifestNamesPackage ==
    /\ last.heard.manifest.exists
    /\ last.heard.manifest.parses
    /\ last.heard.manifest.name \notin {UNDEF, ""}

\* C25: runMoveScript invokes the run-script command only after the compile
\* command has exited zero with a parseable payload and the package name has
\* been read from the manifest; when compilation fails or the manifest is
\* missing or names no package it throws and run-script is not invoked;
\* the script run is <packageDir>/build/<package name>/bytecode_scripts/
\* <scriptName>.mv.
C25_CompileThenRun ==
    Heard("runMoveScript")
        => /\ \A r \in ScriptRuns :
                 /\ CompileSucceeded /\ ManifestNamesPackage
                 /\ \E c \in CompileRuns, m \in ManifestReads : c < m /\ m < r
                 /\ HasArgValue(last.eff[r].args, "--compiled-script-path",
                                last.arg.packageDir \o "/build/"
                                \o last.heard.manifest.name
                                \o "/bytecode_scripts/" \o last.arg.scriptName \o ".mv")
           /\ ~(CompileSucceeded /\ ManifestNamesPackage)
                 => last.threw /\ ScriptRuns = {}
           /\ Cardinality(CompileRuns) = 1 /\ Cardinality(ScriptRuns) <= 1

\* A compilation that failed although the manifest names the package.
C25_Witness ==
    /\ Heard("runMoveScript")
    /\ last.heard.procCompile.status = 1
    /\ ManifestNamesPackage
    /\ last.threw
    /\ ScriptRuns = {}

\* The transaction options with their flags.
TransactionFlags ==
    {<<"gasUnitPrice", "--gas-unit-price">>, <<"maxGas", "--max-gas">>,
     <<"expirationSecs", "--expiration-secs">>}

\* The decimal text of the numbers callers give.
Decimal == (0 :> "0") @@ (5 :> "5") @@ (100 :> "100") @@ (2000000 :> "2000000")

Occurrences(args, flag) == Cardinality({j \in 1..Len(args) : args[j] = flag})

ReadOps == {"runViewFunction", "viewResource", "viewResourceGroup"}

\* C26: in the command by which a transaction-executing operation executes
\* its transaction, each of gasUnitPrice, maxGas and expirationSecs that the
\* caller supplied, 0 included, occurs once as its flag followed by its
\* decimal value, and each one left out does not occur; the commands of
\* runViewFunction, viewResource and viewResourceGroup carry none of the
\* three flags.
C26_TransactionOptionsUniform ==
    /\ TxHeard
         => \A i \in 1..Len(last.eff) : \A f \in TransactionFlags :
               IsEngineCommand(last.eff[i])
                   => IF f[1] \in DOMAIN last.arg
                      THEN /\ Occurrences(last.eff[i].args, f[2]) = 1
                           /\ HasArgValue(last.eff[i].args, f[2], Decimal[last.arg[f[1]]])
                      ELSE ~HasArg(last.eff[i].args, f[2])
    /\ last.op \in ReadOps
         => \A i \in 1..Len(last.eff) : \A f \in TransactionFlags :
               IsKind(last.eff[i], "spawn") => ~HasArg(last.eff[i].args, f[2])

\* An upgrade with a gas price of 100 and 0 for the other two options.
C26_Witness ==
    /\ TxHeard /\ last.op = "upgradeCodeObject"
    /\ "expirationSecs" \in DOMAIN last.arg
    /\ last.arg.maxGas = 0 /\ last.arg.expirationSecs = 0
    /\ \E i \in 1..Len(last.eff) :
          /\ IsEngineCommand(last.eff[i])
          /\ HasArgValue(last.eff[i].args, "--max-gas", "0")
          /\ HasArgValue(last.eff[i].args, "--expiration-secs", "0")
          /\ HasArgValue(last.eff[i].args, "--gas-unit-price", "100")

Backend(e) == IsKind(e, "spawn") \/ IsKind(e, "fetch")

EngineRuns == {i \in 1..Len(last.eff) : IsEngineCommand(last.eff[i])}

\* C27: within one call of a public operation no command is spawned twice
\* and no request is issued twice; a transaction-executing operation that
\* gets to its transaction runs one engine command and at most one request
\* for events (runMoveScript at most one compile and one run-script); and
\* when a command fails the call throws and that command is the last the
\* call had to do with the backend.
C27_NoRetries ==
    /\ \A i, j \in 1..Len(last.eff) :
          i < j /\ Backend(last.eff[i]) => last.eff[i] # last.eff[j]
    /\ TxHeard
          => /\ Cardinality(EngineRuns) <= 1
             /\ Cardinality({i \in 1..Len(last.eff) : IsKind(last.eff[i], "fetch")}) <= 1
             /\ last.op # "runMoveScript" => Cardinality(EngineRuns) = 1
             /\ last.op = "runMoveScript"
                   => /\ Cardinality(CompileRuns) = 1
                      /\ Failed(last.heard.procCompile)
                            => last.threw /\ Len(last.eff) = 1
             /\ EngineRuns # {} /\ Failed(last.heard.proc)
                   => /\ last.threw
                      /\ \A i \in EngineRuns : i = Len(last.eff)
    /\ Heard("getAccountAddress") /\ Failed(last.heard.proc)
          => last.threw /\ Len(last.eff) = 1

\* A transaction command that failed, with events asked for.
C27_Witness ==
    /\ TxHeard /\ last.op = "runMoveFunction"
    /\ wantsEvents(last.arg)
    /\ last.heard.proc.status = 1
    /\ last.threw
    /\ Len(last.eff) = 1

\* The address of the primary store of APT: the digest of the owner's 32
\* bytes, the 32 bytes of the metadata address 0xA and the scheme byte 0xFC.
PrimaryStoreOf(owner) ==
    "0x" \o "sha3-256(" \o padStart(SubSeq(owner, 3, Len(owner)), 64, "0")
         \o padStart("A", 64, "0") \o "fc" \o ")"

StoreUrl(owner) ==
    restUrl \o "/v1/accounts/" \o PrimaryStoreOf(owner)
            \o "/resource/0x1%3A%3Afungible_asset%3A%3AFungibleStore"

\* C28: getAPTBalanceFungibleStore returns 0 and does not throw when the
\* primary store of APT does not exist: in simulation mode when the object
\* group the session printed is empty or has no FungibleStore entry, in live
\* mode when the request for the FungibleStore at the address derived from
\* the owner, 0xA and 0xFC is answered with 404. A store that exists gives
\* its balance digit for digit, and a live answer with another status that
\* is not a success makes the call throw.
C28_MissingStoreIsZero ==
    Heard("getAPTBalanceFungibleStore") =>
        LET h == last.heard
            owner == resolveAddress(last.arg.account, h.procLookup)
        IN  IF ~isLiveMode
            THEN ~Failed(h.proc) =>
                   /\ ~last.threw
                   /\ last.ret = IF hasResult(h.proc.json)
                                     /\ FungibleStore \in DOMAIN h.proc.json.Result
                                 THEN h.proc.json.Result[FungibleStore].balance
                                 ELSE "0"
            ELSE ~owner.threw =>
                   /\ last.eff[Len(last.eff)] = FetchOf(StoreUrl(owner.ret))
                   /\ h.http.status = 404 /\ ~h.http.neterr
                         => ~last.threw /\ last.ret = "0"
                   /\ ~h.http.neterr /\ ~responseOk(h.http) /\ h.http.status # 404
                         => last.threw
                   /\ ~h.http.neterr /\ responseOk(h.http)
                         => ~last.threw /\ last.ret = h.http.body.data.balance

\* A session whose object group has no fungible store answers 0.
C28_Witness ==
    /\ Heard("getAPTBalanceFungibleStore")
    /\ ~isLiveMode
    /\ last.heard.proc = ProcJson(CoreGroup)
    /\ last.ret = "0"

\* A live node that answers 404 for the derived store address.
C28_WitnessLive ==
    /\ Heard("getAPTBalanceFungibleStore")
    /\ isLiveMode
    /\ last.heard.http.status = 404
    /\ ~last.threw /\ last.ret = "0"
    /\ Len(last.eff) = 2

\* The events a call attached to what it returned.
Attached(call) ==
    IF ~call.threw /\ call.op = "runMoveFunction" /\ "events" \in DOMAIN call.ret.Result
    THEN call.ret.Result.events ELSE <<>>

\* C29: in simulation mode a transaction call that returns with events has
\* read the log of the entry "[n]", n being the session's operation counter
\* minus one when the call returns; that entry is the one the engine made for
\* the transaction of this call, one step ago, and the events are the ones
\* that transaction emitted: not those of an earlier transaction, a funding
\* or a view, nor of an entry whose number begins or ends like n.
C29_EventsOfThisTransaction ==
    [][last'.op = "runMoveFunction" /\ ~last'.threw
         => LET n == sdir'.ops - 1
                entry == EntryName(n, "execute")
            IN  /\ sdir'.ops = sdir.ops + 1
                /\ Len(sdir'.kinds) = n + 1
                /\ sdir'.kinds[n + 1] = "execute"
                /\ Attached(last') = <<normalizeEvent(EntryEvent(n, "execute"))>>
                /\ last'.eff[Len(last'.eff)]
                     = Fs("readFileSync",
                          join(join(getSessionPath(workingDir), entry), "events.json"))]_vars

\* The eleventh operation of a session is a transaction: its entry is "[10]",
\* next to "[1]" and "[0]", which hold a view and a funding.
C29_Witness ==
    /\ sdir # <<>>
    /\ sdir.ops = 11
    /\ sdir.kinds[2] = "view" /\ sdir.kinds[10] = "execute"
    /\ last.op = "runMoveFunction"
    /\ Attached(last) = <<[type |-> "0x1::transaction_fee::FeeStatement",
                           data |-> [operation |-> "10"]]>>

\* C30: when a factory throws, the working directory made for the instance
\* and the profile configuration written into it are gone by the time the
\* caller sees the error.
C30_FailedCreationLeavesNothing ==
    life = "failed" => ~dirExists /\ ~config.present

====
